---- MODULE Spec2Model ----
(***************************************************************************)
(* WeatherFlow PiConsole: the forecast synchronizer (lib/forecast.py) and  *)
(* the provisioning service (lib/config.py) as state machines.             *)
(*                                                                         *)
(* Time is counted in ticks, TicksPerSec to the second, so that the        *)
(* sub-second part of a datetime and math.ceil are visible.  Local time is *)
(* modelled without daylight-saving shifts.                                *)
(***************************************************************************)
EXTENDS Integers, Sequences, FiniteSets, TLC

VARIABLES
    \* ---- forecast synchronizer -------------------------------------
    clock,          \* wall clock, in ticks
    fpc,            \* position of Download: "idle" | "fetching"
    timers,         \* due times (ticks) of the scheduled Download calls
    downloads,      \* number of Download calls started
    pool,           \* which payloads the forecast endpoint may answer with
    budget,         \* number of Download calls the run may still start
    funcCalled,     \* Download's funcCalled (ticks)
    Now,            \* Download's Now, read before rescheduling (ticks)
    funcError,      \* Download's funcError
    Data,           \* the response of the forecast request
    metData,        \* the forecast snapshot
    hoursInd,       \* Download's hoursInd (-1: not computed)
    raised,         \* exception caught by Download's try block, or "none"
    secondsSched,   \* delay handed to Clock.schedule_once (seconds)
    panels,         \* weather icon of each panel of app.DailyForecast
    wstep,          \* assignments to the snapshot the running Download has made
    previous,       \* the snapshot as the running Download found it
    observed,       \* what a reader of the snapshot saw last
    \* ---- provisioning service --------------------------------------
    iniFile,        \* wfpiconsole.ini: [exists, opts]
    currentConfig,  \* update(): the configuration read from the file
    Config,         \* the configuration being built (Config / newConfig)
    mode,           \* "create" | "update": which of the two main.py calls
    ppc,            \* position of the provisioning run
    idx,            \* index in defaultConfig of the key being processed
    TEMPEST,        \* module global TEMPEST
    INDOORAIR,      \* module global INDOORAIR
    STATION,        \* module global STATION
    OBSERVATION,    \* module global OBSERVATION
    RETRIES,        \* writeConfigKey's RETRIES
    lastInput,      \* what the user typed at the prompt just answered
    tries,          \* answers the running prompt loop has rejected
    prompted,       \* a prompt has been issued in this run
    requested,      \* a remote request has been made in this run
    stationRequests,  \* station requests made
    stationNotFound,  \* station responses with NOT FOUND
    stationFailures,  \* station responses without status or with another message
    stationPrompts,   \* prompts for a corrected station ID
    stationRejected,  \* answers to those prompts that were turned down
    obsRequests,      \* observation requests made
    obsStationID,     \* station ID of the last observation request
    error,            \* why the run ended early, "" if it did not
    \* ---- telemetry stream client ------------------------------------
    spc,            \* "start" | "running": WebsocketConnect has been called
    stationCfg,     \* config['Station']: the four device IDs
    connector,      \* state of the connector of reactor.connectSSL
    live,           \* transports being established or established
    opened,         \* protocols whose onOpen has run and onClose has not
    attempts,       \* connection attempts made; the latest transport's id
    proto,          \* factory._proto: 0 for None, else the protocol's id
    closedHow,      \* how the latest connection ended
    connectorError, \* connector.connect() was called while not disconnected
    delay,          \* factory.delay, in thousandths
    retries,        \* factory.retries
    calls,          \* pending reconnector calls (reactor.callLater)
    failures,       \* connection failures and losses so far
    idle,           \* time since the open protocol's timeout was last reset
    stale,          \* pending timeout calls of protocols already closed
    lastFrame,      \* the frame onMessage was last called with
    sent,           \* messages transmitted by the last dispatch or send
    started,        \* handler threads started by the last dispatch
    timerReset,     \* the last frame reset the timeout
    threads,        \* handler threads running, in the order they were started
    arrivals,       \* frames received while the threads are followed
    done,           \* handler threads that returned, in the order they did
    \* ---- settings: temperature unit and cut-offs ---------------------
    unitsTemp,      \* config['Units']['Temp']
    FeelsLike,      \* config['FeelsLike']: the cut-off of each key
    celsius,        \* the cut-offs in Celsius as they were first chosen
    changes,        \* changes of the temperature unit made in the settings
    \* ---- application start-up ---------------------------------------
    built           \* build(): "no" before it ran, else how it ended

fvars == <<clock, fpc, timers, downloads, pool, budget, funcCalled, Now, funcError,
           Data, metData, hoursInd, raised, secondsSched, panels,
           wstep, previous, observed>>

pvars == <<iniFile, currentConfig, Config, mode, ppc, idx, TEMPEST, INDOORAIR, STATION,
           OBSERVATION, RETRIES, lastInput, tries, prompted, requested, stationRequests,
           stationNotFound, stationFailures, stationPrompts, stationRejected, obsRequests,
           obsStationID, error>>

linkVars  == <<connector, live, opened, attempts, proto, closedHow, connectorError>>
retryVars == <<delay, retries, calls, failures>>
timerVars == <<idle, stale>>
frameVars == <<lastFrame, sent, started, timerReset>>
hvars == <<threads, arrivals, done>>
svars == <<spc, stationCfg, linkVars, retryVars, timerVars, frameVars, hvars>>

uvars == <<unitsTemp, FeelsLike, celsius, changes, built>>

vars == <<fvars, pvars, svars, uvars>>

\* ---------------------------------------------------------------------
\* Bounds of the model
\* ---------------------------------------------------------------------
TicksPerSec  == 2
MaxElapsed   == 2
MaxDownloads == 2
MaxHours     == 3
MaxNotFound  == 2
MaxRejected  == 1
MaxPanels    == 2
MaxFailures  == 6
MaxFrames    == 3
MaxShift     == 20
MaxChanges   == 3
TicksPerTimeout == 2

\* ---------------------------------------------------------------------
\* Program constants
\* ---------------------------------------------------------------------
SecondsPerHour == 3600
RetrySeconds   == 300
MAXRETRIES     == 3

\* ---------------------------------------------------------------------
\* Arithmetic helpers
\* ---------------------------------------------------------------------
Ticks(s) == s * TicksPerSec

\* math.ceil of a timedelta's total_seconds(), the timedelta given in ticks
CeilSeconds(t) == -((-t) \div TicksPerSec)

\* int(UNIX.time())
UnixTime(t) == t \div TicksPerSec

\* datetime.combine(Now.date(), time(Now.hour,0,0)) + timedelta(hours=1)
NextHour(t) == ((t \div Ticks(SecondsPerHour)) + 1) * Ticks(SecondsPerHour)

\* bisect.bisect(a, x): the insertion point to the right of any entry equal
\* to x, found by halving [lo, hi)
RECURSIVE BisectRight(_, _, _, _)
BisectRight(a, x, lo, hi) ==
    IF lo < hi
    THEN LET mid == (lo + hi) \div 2
         IN  IF x < a[mid + 1]
             THEN BisectRight(a, x, lo, mid)
             ELSE BisectRight(a, x, mid + 1, hi)
    ELSE lo

\* bisect.bisect_left in bisect's place: the insertion point to the left of
\* an entry equal to x
RECURSIVE BisectLeftFrom(_, _, _, _)
BisectLeftFrom(a, x, lo, hi) ==
    IF lo < hi
    THEN LET mid == (lo + hi) \div 2
         IN  IF a[mid + 1] < x
             THEN BisectLeftFrom(a, x, mid + 1, hi)
             ELSE BisectLeftFrom(a, x, lo, mid)
    ELSE lo

BisectLeft(a, x) == BisectLeftFrom(a, x, 0, Len(a))

Bisect(a, x) == BisectRight(a, x, 0, Len(a))

\* ---------------------------------------------------------------------
\* Forecast endpoint: responses and payloads
\* ---------------------------------------------------------------------
Sentinel == "--"
Absent   == "<absent>"
UnavailableText == "Forecast currently\nunavailable..."

\* What a payload may lack, by the lookup of Download that then fails:
\*   no_hourly      forecast['hourly'] missing          (KeyError, line 77)
\*   day_not_found  local_day not among the day_num's   (ValueError, line 94)
\*   no_station     'station' missing                   (KeyError, line 180)
Defects == {"none", "no_hourly", "day_not_found", "no_station"}

NoDict    == [state |-> "absent",  Hours |-> <<>>, defect |-> "none", gen |-> 0,
              icon |-> "", daily |-> <<>>, conds |-> <<>>]
EmptyDict == [state |-> "empty",   Hours |-> <<>>, defect |-> "none", gen |-> 0,
              icon |-> "", daily |-> <<>>, conds |-> <<>>]

\* A payload whose current hourly forecast carries the icon code icon and
\* whose daily forecasts carry the icon codes daily, NoIcon for a daily
\* forecast without 'icon'
NoIcon == "<no icon>"
\* A payload whose hourly forecasts carry the conditions conds
ConditionsPayload(h, d, g, icon, daily, conds) ==
    [state |-> "payload", Hours |-> h, defect |-> d, gen |-> g,
     icon |-> icon, daily |-> daily, conds |-> conds]
IconPayload(h, d, g, icon, daily) ==
    ConditionsPayload(h, d, g, icon, daily, [i \in 1..Len(h) |-> "clear"])
Payload(h, d, g) == IconPayload(h, d, g, "clear-day", <<"rainy", "clear-day">>)

\* The list of lines 170-175 and 279-284 as Python reads it: the two
\* adjacent literals without a comma between them are one string
RecognisedIcons ==
    {"clear-day", "clear-night", "rainy", "possibly-rainy-day",
     "possibly-rainy-night", "snow", "possibly-snow-day",
     "possibly-snow-night", "sleet", "possibly-sleet-day",
     "possibly-sleet-night", "thunderstorm",
     "possibly-thunderstorm-day" \o "possibly-thunderstorm-night",
     "windy", "foggy", "cloudy", "partly-cloudy-day", "partly-cloudy-night"}

\* Icon codes the endpoint may send: the documented ones, a code of a later
\* release, an empty code, and two codes run together
DocumentedIcons ==
    {"clear-day", "clear-night", "rainy", "possibly-rainy-day",
     "possibly-rainy-night", "snow", "possibly-snow-day",
     "possibly-snow-night", "sleet", "possibly-sleet-day",
     "possibly-sleet-night", "thunderstorm", "possibly-thunderstorm-day",
     "possibly-thunderstorm-night", "windy", "foggy", "cloudy",
     "partly-cloudy-day", "partly-cloudy-night"}
IconCodes ==
    DocumentedIcons
    \cup {"tornado", "", "possibly-thunderstorm-daypossibly-thunderstorm-night"}
    \cup {"cc-rainy", "cc-tornado"}
DailyCodes ==
    {"cloudy", "possibly-thunderstorm-night", "tornado", NoIcon,
     "possibly-thunderstorm-daypossibly-thunderstorm-night"}
DailySeries ==
    UNION { [1..n -> DailyCodes] : n \in 0..MaxPanels }

\* The hourly series the endpoint may publish around time t: starting at the
\* coming hour, at the running hour, ended at the running hour, or empty
HourOf(t) == (t \div Ticks(SecondsPerHour)) * SecondsPerHour
SeriesAround(t) ==
    { <<>>,
      <<HourOf(t) + SecondsPerHour, HourOf(t) + 2 * SecondsPerHour>>,
      <<HourOf(t), HourOf(t) + SecondsPerHour>>,
      <<HourOf(t) - SecondsPerHour, HourOf(t)>> }

\* Every strictly increasing series over the stamps 100, 200, ...
Stamps == { 100 * k : k \in 1..MaxHours }
RECURSIVE Ascending(_)
Ascending(S) ==
    IF S = {} THEN <<>>
    ELSE LET m == CHOOSE x \in S : \A y \in S : x <= y
         IN  <<m>> \o Ascending(S \ {m})
AllSeries == { Ascending(S) : S \in SUBSET Stamps }

\* forecast['conditions'] of the hourly forecasts
ConditionCodes == {"clear", "rainy"}

PayloadsAt(p, t, g) ==
    IF p = "series"
    THEN { Payload(h, "none", g) : h \in AllSeries }
    ELSE IF p = "conditions"
    THEN UNION { { ConditionsPayload(h, "none", g, "clear-day", <<"rainy", "clear-day">>, c) :
                       c \in [1..Len(h) -> ConditionCodes] } : h \in AllSeries }
    ELSE IF p = "labels"
    THEN { Payload(<<HourOf(t) + SecondsPerHour>>, d, g) :
               d \in {"none", "no_hourly", "no_station"} }
    ELSE IF p = "icons"
    THEN { IconPayload(<<HourOf(t) + SecondsPerHour>>, "none", g, ic, dl) :
               ic \in IconCodes, dl \in DailySeries }
         \cup { IconPayload(<<HourOf(t) + SecondsPerHour>>, d, g, "tornado", <<"tornado">>) :
                   d \in Defects \ {"none"} }
    ELSE { Payload(h, "none", g) : h \in SeriesAround(t) }
         \cup { Payload(<<HourOf(t) + SecondsPerHour>>, d, g) : d \in Defects \ {"none"} }

NoResponse == [exists |-> FALSE, ok |-> FALSE, isJson |-> FALSE, isDict |-> FALSE,
               forecast |-> "missing", payload |-> EmptyDict]

InvalidResponses ==
    { NoResponse,
      [NoResponse EXCEPT !.exists = TRUE],
      [NoResponse EXCEPT !.exists = TRUE, !.ok = TRUE],
      [NoResponse EXCEPT !.exists = TRUE, !.ok = TRUE, !.isJson = TRUE],
      [NoResponse EXCEPT !.exists = TRUE, !.ok = TRUE, !.isJson = TRUE, !.isDict = TRUE],
      [NoResponse EXCEPT !.exists = TRUE, !.ok = TRUE, !.isJson = TRUE, !.isDict = TRUE,
                         !.forecast = "null"] }

\* Every response requests.get can hand to verifyResponse for a body that,
\* when it is an object with the field 'forecast' set, holds the payload pl:
\* no response at all, or a response with either status whose body is not
\* JSON, is JSON but no object, or is an object without the field, with the
\* field null, or with the field set
AllResponses(pl) ==
    { r \in [exists : BOOLEAN, ok : BOOLEAN, isJson : BOOLEAN, isDict : BOOLEAN,
             forecast : {"missing", "null", "present"}, payload : {EmptyDict, pl}] :
        /\ ~r.exists => (~r.ok /\ ~r.isJson)
        /\ ~r.isJson => ~r.isDict
        /\ ~r.isDict => r.forecast = "missing"
        /\ (r.payload = pl) <=> (r.isDict /\ r.forecast = "present") }

ValidResponse(pl) ==
    [exists |-> TRUE, ok |-> TRUE, isJson |-> TRUE, isDict |-> TRUE,
     forecast |-> "present", payload |-> pl]

ResponsesAt(p, t, g) ==
    IF p = "responses"
    THEN AllResponses(Payload(<<HourOf(t) + SecondsPerHour>>, "none", g))
    ELSE
    (IF p \in {"series", "conditions"} THEN {} ELSE IF p = "labels" THEN {NoResponse} ELSE InvalidResponses)
    \cup { ValidResponse(pl) : pl \in PayloadsAt(p, t, g) }

\* verifyResponse without the test of the status
verifyResponseAnyStatus(Response) ==
    IF ~Response.exists THEN FALSE
    ELSE IF ~Response.isJson THEN FALSE
    ELSE IF Response.isDict
         THEN Response.forecast = "present"
         ELSE FALSE

\* requestAPI verifyResponse(Response, 'forecast')
verifyResponse(Response) ==
    IF ~Response.exists THEN FALSE
    ELSE IF ~Response.ok THEN FALSE
    ELSE IF ~Response.isJson THEN FALSE
    ELSE IF Response.isDict
         THEN Response.forecast = "present"
         ELSE FALSE

\* ---------------------------------------------------------------------
\* Download: the try block (lines 75-181) and its handler (lines 185-204)
\* ---------------------------------------------------------------------
ValueFields == {"Valid", "Temp", "highTemp", "lowTemp", "WindSpd", "WindGust",
                "WindDir", "PrecipPercnt", "PrecipDay", "PrecipAmount",
                "PrecipType", "Icon"}

\* MetData as the application declares it: the other keys are not set yet
InitialMetData ==
    [Dict |-> NoDict, Time |-> -1,
     Valid |-> Sentinel, Temp |-> Sentinel, highTemp |-> Absent, lowTemp |-> Absent,
     WindSpd |-> Sentinel, WindGust |-> Absent, WindDir |-> Sentinel,
     PrecipPercnt |-> Absent, PrecipDay |-> Absent, PrecipAmount |-> Absent,
     PrecipType |-> Absent, Conditions |-> Absent, Icon |-> Absent,
     Status |-> Absent, stationOnline |-> FALSE, stationUsed |-> FALSE]

\* No reader has looked at the snapshot yet
NoRead == [during |-> FALSE, at |-> 0, download |-> 0, labels |-> InitialMetData]

\* observation.Format(observation.Units(...)) of a quantity of payload D
Formatted(field, D) == field \o "@" \o ToString(D.gen)

\* hoursInd = bisect.bisect(Hours, int(UNIX.time()))
HoursInd(D, t) == Bisect(D.Hours, t)

\* The exception that ends lines 77-150, "none" when they all succeed
LookupError(D, t) ==
    IF D.state # "payload" THEN "KeyError"
    ELSE IF D.defect = "no_hourly" THEN "KeyError"
    ELSE IF HoursInd(D, t) >= Len(D.Hours) THEN "IndexError"
    ELSE IF D.defect = "day_not_found" THEN "ValueError"
    ELSE "none"

\* The exception raised by lines 180-181
StationError(D) == IF D.defect = "no_station" THEN "KeyError" ELSE "none"

TryError(D, t) ==
    IF LookupError(D, t) # "none" THEN LookupError(D, t) ELSE StationError(D)

\* Lines 170-178 and 279-287: the icon code if it is in the list, else '--'
Checked(icon) == IF icon \in RecognisedIcons THEN icon ELSE Sentinel

\* Line 101: hourlyCurrent['icon'].replace('cc-','')
WithoutCC(icon) ==
    CASE icon = "cc-rainy"   -> "rainy"
      [] icon = "cc-tornado" -> "tornado"
      [] OTHER               -> icon

\* str.capitalize() of a condition
Capitalize(c) ==
    CASE c = "clear" -> "Clear" [] c = "rainy" -> "Rainy"

\* Lines 127-131: Ind, the place in conditionList = conditions[hoursInd:] of
\* the first condition that differs from the current one, its last place if
\* none does (counted from 0)
ChangeInd(D, t) ==
    LET cur  == HoursInd(D, t) + 1
        list == SubSeq(D.conds, cur, Len(D.conds))
        diff == { i \in 1..Len(list) : list[i] # D.conds[cur] }
    IN  IF diff = {} THEN Len(list) - 1
        ELSE (CHOOSE i \in diff : \A j \in diff : i <= j) - 1

\* Lines 132-138: Time = Hours[Ind] and the text built with it (the time is
\* left as its timestamp, the words for the day are left out)
ConditionsText(D, t) ==
    Capitalize(D.conds[HoursInd(D, t) + 1]) \o " until "
        \o ToString(D.Hours[ChangeInd(D, t) + 1])

\* Lines 153-178: the labels of the snapshot
Assigned(m, t, called) ==
    LET D == m.Dict
    IN  [m EXCEPT !.Time         = called,
                  !.Valid        = ToString(D.Hours[HoursInd(D, t) + 1]),
                  !.Temp         = Formatted("Temp", D),
                  !.highTemp     = Formatted("highTemp", D),
                  !.lowTemp      = Formatted("lowTemp", D),
                  !.WindSpd      = Formatted("WindSpd", D),
                  !.WindGust     = Formatted("WindGust", D),
                  !.WindDir      = Formatted("WindDir", D),
                  !.PrecipPercnt = Formatted("PrecipPercnt", D),
                  !.PrecipDay    = Formatted("PrecipDay", D),
                  !.PrecipAmount = Formatted("PrecipAmount", D),
                  !.PrecipType   = "rain",
                  !.Conditions   = ConditionsText(D, t),
                  !.Icon         = Checked(WithoutCC(D.icon)),
                  !.Status       = ""]

\* Lines 180-181
WithStation(m) == [m EXCEPT !.stationOnline = TRUE, !.stationUsed = TRUE]

\* The except handler without its resets of Icon and of the station flags
UnavailablePartial(m, called) ==
    [m EXCEPT !.Time         = called,
              !.Valid        = Sentinel,
              !.Temp         = Sentinel,
              !.highTemp     = Sentinel,
              !.lowTemp      = Sentinel,
              !.WindSpd      = Sentinel,
              !.WindGust     = Sentinel,
              !.WindDir      = Sentinel,
              !.PrecipPercnt = Sentinel,
              !.PrecipDay    = Sentinel,
              !.PrecipAmount = Sentinel,
              !.PrecipType   = Sentinel,
              !.Conditions   = "",
              !.Status       = UnavailableText]

\* Lines 186-204: the except handler
Unavailable(m, called) ==
    [m EXCEPT !.Time         = called,
              !.Valid        = Sentinel,
              !.Temp         = Sentinel,
              !.highTemp     = Sentinel,
              !.lowTemp      = Sentinel,
              !.WindSpd      = Sentinel,
              !.WindGust     = Sentinel,
              !.WindDir      = Sentinel,
              !.PrecipPercnt = Sentinel,
              !.PrecipDay    = Sentinel,
              !.PrecipAmount = Sentinel,
              !.PrecipType   = Sentinel,
              !.Conditions   = "",
              !.Icon         = Sentinel,
              !.Status       = UnavailableText,
              !.stationOnline = FALSE,
              !.stationUsed   = FALSE]

\* The try statement as a whole: lines run until one raises, the handler
\* then works on whatever they had assigned
TryExtract(m, t, called) ==
    IF LookupError(m.Dict, t) # "none" THEN Unavailable(m, called)
    ELSE IF StationError(m.Dict) # "none"
         THEN Unavailable(Assigned(m, t, called), called)
         ELSE WithStation(Assigned(m, t, called))

\* ExtractDaily lines 245-265: the icon code of day i, 'XX' when a lookup
\* raises IndexError or KeyError
DailyWeather(D, i) ==
    IF D.state # "payload" THEN "XX"
    ELSE IF i > Len(D.daily) THEN "XX"
    ELSE IF D.daily[i] = NoIcon THEN "XX"
    ELSE D.daily[i]

\* ExtractDaily, lines 223-287: the weather icon of every panel
ExtractDaily(D) == [i \in 1..MaxPanels |-> Checked(DailyWeather(D, i))]

\* The delay with the hour boundary taken after the call time, not after Now
ScheduleDelayFromCall(err, called, now) ==
    IF err = 0
    THEN CeilSeconds(NextHour(called) - called)
    ELSE RetrySeconds + CeilSeconds(called - now)

\* The delay with the elapsed time added to the retry delay, not subtracted
ScheduleDelayPlusElapsed(err, called, now) ==
    IF err = 0
    THEN CeilSeconds(NextHour(now) - called)
    ELSE RetrySeconds + CeilSeconds(now - called)

\* Lines 209-214: the delay of the next Download
ScheduleDelay(err, called, now) ==
    IF err = 0
    THEN CeilSeconds(NextHour(now) - called)
    ELSE RetrySeconds + CeilSeconds(called - now)

\* ---------------------------------------------------------------------
\* Download as two steps: up to the blocking request, and from its answer
\* ---------------------------------------------------------------------
\* The time the request of lines 63-66 takes: requests.get bounds the wait
\* for the connection and for each read by Config['System']['Timeout'], the
\* whole call by nothing; pool "stalled" has the calls that last about
\* RetrySeconds
ElapsedAt(p) ==
    IF p = "stalled"
    THEN {0, MaxElapsed, Ticks(RetrySeconds) - 1, Ticks(RetrySeconds),
          Ticks(RetrySeconds) + MaxElapsed}
    ELSE 0..MaxElapsed

DownloadRequest ==
    /\ fpc = "idle"
    /\ budget > 0
    /\ \E due \in timers :
         /\ \A o \in timers : due <= o
         /\ LET start == IF due > clock THEN due ELSE clock
            IN  \E r \in ResponsesAt(pool, start, downloads + 1), e \in ElapsedAt(pool) :
                  /\ funcCalled' = start
                  /\ Data' = r
                  /\ clock' = start + e
         /\ timers' = timers \ {due}
    /\ funcError' = 0
    /\ downloads' = downloads + 1
    /\ budget' = budget - 1
    /\ fpc' = "fetching"
    /\ UNCHANGED <<pool, Now, metData, hoursInd, raised, secondsSched, panels>>
    /\ UNCHANGED <<wstep, previous, observed>>
    /\ UNCHANGED <<pvars, svars, uvars>>

\* An invalid response empties the stored payload
StoredDictEmptied(valid, data, m) ==
    IF valid THEN data.payload ELSE EmptyDict

\* Lines 66-72: metData['Dict'] after the response was verified
StoredDict(valid, data, m) ==
    IF valid THEN data.payload
    ELSE IF m.Dict.state = "absent" THEN EmptyDict
    ELSE m.Dict

DownloadProcess ==
    /\ fpc = "fetching"
    /\ LET valid == verifyResponse(Data)
           dict  == StoredDict(valid, Data, metData)
           t     == UnixTime(clock)
           exc   == TryError(dict, t)
           err   == IF valid /\ exc = "none" THEN 0 ELSE 1
           secs  == ScheduleDelay(err, funcCalled, clock)
       IN  /\ metData' = TryExtract([metData EXCEPT !.Dict = dict], t, funcCalled)
           /\ hoursInd' = IF dict.state = "payload" /\ dict.defect # "no_hourly"
                          THEN HoursInd(dict, t) ELSE -1
           /\ raised' = exc
           /\ funcError' = err
           /\ Now' = clock
           /\ secondsSched' = secs
           /\ timers' = timers \cup {clock + (IF secs > 0 THEN Ticks(secs) ELSE 0)}
           /\ panels' = ExtractDaily(dict)
    /\ Data' = NoResponse
    /\ fpc' = "idle"
    /\ UNCHANGED <<clock, downloads, pool, budget, funcCalled>>
    /\ UNCHANGED <<wstep, previous, observed>>
    /\ UNCHANGED <<pvars, svars, uvars>>

ForecastNext == DownloadRequest \/ DownloadProcess

\* Start times: 14:37:00, half a second and a tick before 15:00:00
StartTimes == { Ticks(52620), Ticks(54000) - 1, Ticks(53999) }

\* The state before any Download ran, with the Downloads due at the times
\* in due scheduled
ForecastWith(p, b, t, due) ==
    /\ clock = t
    /\ fpc = "idle"
    /\ timers = due
    /\ downloads = 0
    /\ pool = p
    /\ budget = b
    /\ funcCalled = t
    /\ Now = t
    /\ funcError = 0
    /\ Data = NoResponse
    /\ metData = InitialMetData
    /\ hoursInd = -1
    /\ raised = "none"
    /\ secondsSched = 0
    /\ panels = [i \in 1..MaxPanels |-> Absent]
    /\ wstep = 0
    /\ previous = InitialMetData
    /\ observed = NoRead

ForecastStart(p, b, t) == ForecastWith(p, b, t, {t})

\* ---------------------------------------------------------------------
\* Forecast synchronizer: properties
\* ---------------------------------------------------------------------
DownloadDone == fpc = "idle" /\ downloads > 0

HourIndex(t) == t \div Ticks(SecondsPerHour)

\* The delay between a call time and the hour boundary that follows it,
\* rounded up to whole seconds
DelayToNextHour(called) == CeilSeconds(NextHour(called) - called)

C8_DelayToHourAfterCall ==
    (DownloadDone /\ funcError = 0) => secondsSched = DelayToNextHour(funcCalled)

\* C8 amended: after a successful fetch the delay is the difference between
\* the call time and the hour boundary following the time processing ended,
\* rounded up: the claimed delay when call and end fall in the same clock
\* hour (1380 s for a call at 14:37:00), and one hour more for each hour
\* boundary passed between the call and the end of processing.
C8_DelayToHourAfterEnd ==
    (DownloadDone /\ funcError = 0) =>
        /\ secondsSched = DelayToNextHour(funcCalled)
                          + SecondsPerHour * (HourIndex(Now) - HourIndex(funcCalled))
        /\ (funcCalled = Ticks(52620) /\ HourIndex(Now) = HourIndex(funcCalled))
               => secondsSched = 1380

C8_Witness ==
    /\ DownloadDone
    /\ funcError = 0
    /\ HourIndex(Now) > HourIndex(funcCalled)
    /\ secondsSched > SecondsPerHour

\* C9 as stated: after a failed fetch the delay is 300 seconds plus the
\* elapsed processing time, hence at least 300 seconds.
C9_DelayAtLeastRetry ==
    (DownloadDone /\ funcError = 1) =>
        /\ secondsSched = RetrySeconds + CeilSeconds(Now - funcCalled)
        /\ secondsSched >= RetrySeconds

\* C9 amended: after a failed fetch the delay is 300 seconds minus the whole
\* seconds of processing time elapsed, hence at most 300 seconds, so that
\* the next fetch is due at least 300 and less than 301 seconds after the
\* failed fetch was started.
C9_DelayRetryLessElapsed ==
    (DownloadDone /\ funcError = 1) =>
        /\ secondsSched = RetrySeconds - ((Now - funcCalled) \div TicksPerSec)
        /\ secondsSched <= RetrySeconds
        /\ Now + Ticks(secondsSched) >= funcCalled + Ticks(RetrySeconds)
        /\ Now + Ticks(secondsSched) <  funcCalled + Ticks(RetrySeconds + 1)

C9_Witness ==
    /\ DownloadDone
    /\ funcError = 1
    /\ Now - funcCalled >= TicksPerSec
    /\ secondsSched < RetrySeconds

\* C10: when a lookup of the extraction failed (KeyError, IndexError or
\* ValueError), then after Download every value field is the "--" sentinel,
\* Conditions is empty, Status is the unavailable text, both station flags
\* are False, the fetch counts as failed and the retry delay is scheduled.
C10_FailureResetsSnapshot ==
    (DownloadDone /\ raised # "none") =>
        /\ \A f \in ValueFields : metData[f] = Sentinel
        /\ metData.Conditions = ""
        /\ metData.Status = UnavailableText
        /\ metData.stationOnline = FALSE
        /\ metData.stationUsed = FALSE
        /\ funcError = 1
        /\ secondsSched <= RetrySeconds
        /\ (Now + Ticks(secondsSched)) \in timers

\* the failure comes after the labels were assigned (lines 153-178)
C10_Witness ==
    /\ DownloadDone
    /\ raised = "KeyError"
    /\ metData.Dict.defect = "no_station"
    /\ metData.Icon = Sentinel

\* =====================================================================
\* Provisioning service (lib/config.py)
\* =====================================================================

\* ---------------------------------------------------------------------
\* defaultConfig(): sections and keys in declaration order (the
\* per-section Description is left out), with each key's details
\* ---------------------------------------------------------------------
Version  == "v3.6"
Hardware == "Other"
WeatherFlowKey == "146e4f2c-adec-4244-b711-1aeca8f46a48"

UserInput(s, k, f) ==
    [s |-> s, k |-> k, Type |-> "userInput", State |-> "required", Format |-> f,
     Value |-> "", Source |-> ""]
Fixed(s, k, v) ==
    [s |-> s, k |-> k, Type |-> "fixed", State |-> "", Format |-> "",
     Value |-> v, Source |-> ""]
Default(s, k, v) ==
    [s |-> s, k |-> k, Type |-> "default", State |-> "", Format |-> "",
     Value |-> v, Source |-> ""]
Request(s, k, src) ==
    [s |-> s, k |-> k, Type |-> "request", State |-> "", Format |-> "",
     Value |-> "", Source |-> src]
Dependent(s, k) ==
    [s |-> s, k |-> k, Type |-> "dependent", State |-> "", Format |-> "",
     Value |-> "", Source |-> ""]

defaultConfig ==
    << UserInput("Keys", "CheckWX", "str"),
       Fixed("Keys", "WeatherFlow", WeatherFlowKey),
       UserInput("Station", "StationID", "int"),
       UserInput("Station", "TempestID", "int"),
       UserInput("Station", "SkyID", "int"),
       UserInput("Station", "OutAirID", "int"),
       UserInput("Station", "InAirID", "int"),
       Request("Station", "TempestHeight", "station"),
       Request("Station", "SkyHeight", "station"),
       Request("Station", "OutAirHeight", "station"),
       Request("Station", "Latitude", "station"),
       Request("Station", "Longitude", "station"),
       Request("Station", "Elevation", "station"),
       Request("Station", "Timezone", "station"),
       Request("Station", "Name", "station"),
       Default("Station", "IndoorBME280Corr", "2.00"),
       Request("Units", "Temp", "observation"),
       Request("Units", "Pressure", "observation"),
       Request("Units", "Wind", "observation"),
       Request("Units", "Direction", "observation"),
       Request("Units", "Precip", "observation"),
       Request("Units", "Distance", "observation"),
       Request("Units", "Other", "observation"),
       Default("Display", "TimeFormat", "24 hr"),
       Default("Display", "DateFormat", "Mon, 01 Jan 0000"),
       Default("Display", "LightningPanel", "1"),
       Default("Display", "IndoorTemp", "1"),
       Default("FeelsLike", "ExtremelyCold", "-4"),
       Default("FeelsLike", "FreezingCold", "0"),
       Default("FeelsLike", "VeryCold", "4"),
       Default("FeelsLike", "Cold", "9"),
       Default("FeelsLike", "Mild", "14"),
       Default("FeelsLike", "Warm", "18"),
       Default("FeelsLike", "Hot", "23"),
       Default("FeelsLike", "VeryHot", "28"),
       Default("PrimaryPanels", "PanelOne", "Forecast"),
       Default("PrimaryPanels", "PanelTwo", "Temperature"),
       Default("PrimaryPanels", "PanelThree", "WindSpeed"),
       Default("PrimaryPanels", "PanelFour", "SunriseSunset"),
       Default("PrimaryPanels", "PanelFive", "Rainfall"),
       Default("PrimaryPanels", "PanelSix", "Barometer"),
       Default("SecondaryPanels", "PanelOne", "Sager"),
       Default("SecondaryPanels", "PanelTwo", ""),
       Default("SecondaryPanels", "PanelThree", ""),
       Default("SecondaryPanels", "PanelFour", "MoonPhase"),
       Default("SecondaryPanels", "PanelFive", ""),
       Default("SecondaryPanels", "PanelSix", "Lightning"),
       Dependent("System", "BarometerMax"),
       Dependent("System", "BarometerMin"),
       Default("System", "Timeout", "20"),
       Default("System", "Hardware", Hardware),
       Default("System", "Version", Version) >>

KeyCount == Len(defaultConfig)

\* A section/key pair
Opt(s, k) == <<s, k>>
OptOf(d) == Opt(d.s, d.k)

SchemaOpts == { OptOf(defaultConfig[i]) : i \in 1..KeyCount }

\* A key a configuration file of another release may hold and the schema
\* does not
LegacyOpt == Opt("Station", "MetOfficeID")
\* A key in a section the schema does not have
LegacySectionOpt == Opt("DarkSky", "Key")
LegacyOpts == {LegacyOpt, LegacySectionOpt}
AllOpts == SchemaOpts \cup LegacyOpts

\* A ConfigParser: each option's value, NoOption where the option is not set
NoOption == "<no option>"
EmptyConfig == [o \in AllOpts |-> NoOption]
has_option(cfg, o) == cfg[o] # NoOption

FeelsLikeKeys == {"ExtremelyCold", "FreezingCold", "VeryCold", "Cold", "Mild",
                  "Warm", "Hot", "VeryHot"}

\* ---------------------------------------------------------------------
\* Versions: packaging.version.parse and its ordering
\* ---------------------------------------------------------------------
KnownVersions == {"v3.5", "v3.51", "v3.5.1", "v3.6", "v3.7"}

\* the release tuple of a version string
ParseVersion(v) ==
    CASE v = "v3.5"   -> <<3, 5>>
      [] v = "v3.51"  -> <<3, 51>>
      [] v = "v3.5.1" -> <<3, 5, 1>>
      [] v = "v3.6"   -> <<3, 6>>
      [] v = "v3.7"   -> <<3, 7>>

\* release tuples compare component by component, a missing component as 0
RECURSIVE ReleaseLess(_, _)
ReleaseLess(a, b) ==
    IF a = <<>> /\ b = <<>> THEN FALSE
    ELSE LET x == IF a = <<>> THEN 0 ELSE Head(a)
             y == IF b = <<>> THEN 0 ELSE Head(b)
         IN  IF x < y THEN TRUE
             ELSE IF x > y THEN FALSE
             ELSE ReleaseLess(IF a = <<>> THEN a ELSE Tail(a),
                              IF b = <<>> THEN b ELSE Tail(b))

\* update() without lines 116-118
TweakNothing(v) == v

\* update(), lines 116-118
TweakVersion(v) == IF v = "v3.51" THEN "v3.5.1" ELSE v

\* the comparison with <= in place of <
VersionNotNewer(currentVersion, defaultVersion) ==
    ~ReleaseLess(ParseVersion(defaultVersion), ParseVersion(TweakVersion(currentVersion)))

\* update(), line 127: version.parse(currentVersion) < version.parse(defaultVersion)
VersionOlder(currentVersion, defaultVersion) ==
    ReleaseLess(ParseVersion(TweakVersion(currentVersion)), ParseVersion(defaultVersion))

\* ---------------------------------------------------------------------
\* Interactive input
\* ---------------------------------------------------------------------
\* Strings int() accepts, with str(int(s))
IntStrings == {"10", "12", "012", "13", "20", "21", "30", "99"}
IntCanon(s) == IF s = "012" THEN "12" ELSE s

\* The format validator accepts whatever is typed
FormatOkAlways(f, raw) == TRUE

\* keyDetails['Format'](Value): the value, or a ValueError
FormatOk(f, raw) == IF f = "int" THEN raw \in IntStrings ELSE TRUE
FormatValue(f, raw) == IF f = "int" THEN IntCanon(raw) ELSE raw

\* What the user may type at each prompt
YesNoAnswers == {"y", "n", "maybe"}
KeyInputs(k) ==
    CASE k = "CheckWX"   -> {"", "abc"}
      [] k = "StationID" -> {"", "abc", "012"}
      [] k = "TempestID" -> {"", "abc", "10", "99"}
      [] k = "SkyID"     -> {"", "abc", "30", "99"}
      [] k = "OutAirID"  -> {"", "abc", "20", "99"}
      [] k = "InAirID"   -> {"", "abc", "21"}
ReenterStationInputs == {"", "abc", "13"}
ReenterDeviceInputs(k) ==
    CASE k = "TempestHeight" -> {"", "abc", "10", "99"}
      [] k = "SkyHeight"     -> {"", "abc", "30", "99"}
      [] k = "OutAirHeight"  -> {"", "abc", "20", "99"}

\* queryUser's table of valid responses
QueryValid(choice) == choice \in {"yes", "y", "ye", "no", "n"}
QueryAnswer(choice) == choice \in {"yes", "y", "ye"}

\* ---------------------------------------------------------------------
\* Remote station and observation endpoints
\* ---------------------------------------------------------------------
None == [kind |-> "None", hasStatus |-> FALSE, status_message |-> "", variant |-> 0]

StationJson(hasStatus, msg, v) ==
    [kind |-> "json", hasStatus |-> hasStatus, status_message |-> msg, variant |-> v]

\* The station's devices: a hub without device_type, a TEMPEST, a SKY and
\* two AIRs; in variant 2 the TEMPEST and the SKY stand at ground level
Device(id, hasType, type, agl) ==
    [device_id |-> id, hasType |-> hasType, device_type |-> type, agl |-> agl]
Devices(v) ==
    << Device("5",  FALSE, "",   ""),
       Device("10", TRUE,  "ST", IF v = 2 THEN "0" ELSE "2"),
       Device("30", TRUE,  "SK", IF v = 2 THEN "0" ELSE "3"),
       Device("20", TRUE,  "AR", "1"),
       Device("21", TRUE,  "AR", "1") >>
StationVariants == {1, 2}

StationResponses ==
    { StationJson(FALSE, "", 0),
      StationJson(TRUE, "UNAUTHORIZED", 0),
      StationJson(TRUE, "NOT FOUND", 0) }
    \cup { StationJson(TRUE, "SUCCESS", v) : v \in StationVariants }

\* 'NOT FOUND' in status_message, 'SUCCESS' in status_message
IsNotFound(r) == r.status_message = "NOT FOUND"
IsSuccess(r)  == r.status_message = "SUCCESS"

\* STATION['stations'][0][...] of a successful response
StationField(k) ==
    CASE k = "Latitude"  -> "51.5"
      [] k = "Longitude" -> "-0.1"
      [] k = "Timezone"  -> "Europe/London"
      [] k = "Name"      -> "Home"
      [] k = "Elevation" -> "35.0"

\* Observation responses: units 1 are metric, units 2 imperial; a response
\* that is not successful carries no station_units
ObservationJson(hasStatus, msg, u) ==
    [kind |-> "json", hasStatus |-> hasStatus, status_message |-> msg, variant |-> u]
UnitVariants == {1, 2}
ObservationResponses ==
    { ObservationJson(FALSE, "", 0),
      ObservationJson(TRUE, "UNAUTHORIZED", 0) }
    \cup { ObservationJson(TRUE, "SUCCESS", u) : u \in UnitVariants }

HasStationUnits(o) == o.kind = "json" /\ o.variant \in UnitVariants

\* OBSERVATION['station_units']['units_' + Key.lower()]
StationUnit(u, k) ==
    CASE k = "Temp"      -> IF u = 1 THEN "c" ELSE "f"
      [] k = "Pressure"  -> IF u = 1 THEN "mb" ELSE "inhg"
      [] k = "Wind"      -> IF u = 1 THEN "mps" ELSE "mph"
      [] k = "Direction" -> "cardinal"
      [] k = "Precip"    -> IF u = 1 THEN "mm" ELSE "in"
      [] k = "Distance"  -> IF u = 1 THEN "km" ELSE "mi"
      [] k = "Other"     -> IF u = 1 THEN "metric" ELSE "imperial"

\* ---------------------------------------------------------------------
\* writeConfigKey and copyConfigKey: the values written
\* ---------------------------------------------------------------------
Set(cfg, o, v) == [cfg EXCEPT ![o] = v]

\* copyConfigKey with the value of a fixed key taken from the existing file
copyConfigKeyFromFile(newConfig, current, d, tempest) ==
    LET v == IF d.k \in {"SkyID", "SkyHeight"} /\ tempest THEN ""
             ELSE IF d.k \in {"OutAirID", "OutAirHeight"} /\ tempest THEN ""
             ELSE current[OptOf(d)]
    IN  Set(newConfig, OptOf(d), v)

\* copyConfigKey leaving out the AIR/SKY keys when switching to TEMPEST
copyConfigKeySkipping(newConfig, current, d, tempest) ==
    IF d.k \in {"SkyID", "SkyHeight", "OutAirID", "OutAirHeight"} /\ tempest
    THEN newConfig
    ELSE Set(newConfig, OptOf(d), IF d.Type = "fixed" THEN d.Value ELSE current[OptOf(d)])

\* copyConfigKey without the test of TEMPEST: every value is carried over
copyConfigKeyKeeping(newConfig, current, d, tempest) ==
    Set(newConfig, OptOf(d), IF d.Type = "fixed" THEN d.Value ELSE current[OptOf(d)])

\* copyConfigKey taking every value from the schema, as it does for fixed keys
copyConfigKeyFromSchema(newConfig, current, d, tempest) ==
    Set(newConfig, OptOf(d), d.Value)

\* copyConfigKey, lines 167-187
copyConfigKey(newConfig, current, d, tempest) ==
    LET v == IF d.Type = "fixed" THEN d.Value
             ELSE IF d.k \in {"SkyID", "SkyHeight"} /\ tempest THEN ""
             ELSE IF d.k \in {"OutAirID", "OutAirHeight"} /\ tempest THEN ""
             ELSE current[OptOf(d)]
    IN  Set(newConfig, OptOf(d), v)

\* float() of a schema literal of the FeelsLike section
NumberOf(v) ==
    CASE v = "-4" -> -4 [] v = "0" -> 0   [] v = "4" -> 4   [] v = "9" -> 9
      [] v = "14" -> 14 [] v = "18" -> 18 [] v = "23" -> 23 [] v = "28" -> 28

\* int(): truncation towards zero, of the quotient n / d
Truncate(n, d) == IF n >= 0 THEN n \div d ELSE -((-n) \div d)

\* str(int(float(Value)*9/5 + 32))
Fahrenheit(v) == ToString(Truncate(9 * NumberOf(v) + 160, 5))

\* 'c' in Config['Units']['Temp'], 'f' in Config['Units']['Temp']
HasLetter(ch, unit) == unit = ch

\* Lines 286-292: the value of a default or fixed key, "<unbound>" when
\* neither branch assigns Value
Unbound == "<unbound>"
DefaultValue(cfg, d) ==
    IF d.k \in FeelsLikeKeys
    THEN IF HasLetter("c", cfg[Opt("Units", "Temp")]) THEN d.Value
         ELSE IF HasLetter("f", cfg[Opt("Units", "Temp")]) THEN Fahrenheit(d.Value)
         ELSE Unbound
    ELSE d.Value

\* Lines 268-275: the value of a dependent key, Unbound when the pressure
\* unit is not in the list (Units.index raises)
PressureUnits == <<"mb", "hpa", "inhg", "mmhg">>
Max == <<"1050", "1050", "31.0", "788">>
Min == <<"950", "950", "28.0", "713">>
DependentValue(cfg, d) ==
    LET unit == cfg[Opt("Units", "Pressure")]
        at   == { i \in 1..Len(PressureUnits) : PressureUnits[i] = unit }
    IN  IF at = {} THEN Unbound
        ELSE LET i == CHOOSE j \in at : \A o \in at : j <= o
             IN  IF d.k = "BarometerMax" THEN Max[i] ELSE Min[i]

\* Lines 360-364 (385-389, 410-414): the height of the device with the
\* configured ID and the wanted type, the last such device winning
HeightKeys == {"TempestHeight", "OutAirHeight", "SkyHeight"}
DeviceIdKey(k) ==
    CASE k = "TempestHeight" -> "TempestID"
      [] k = "OutAirHeight"  -> "OutAirID"
      [] k = "SkyHeight"     -> "SkyID"
DeviceType(k) ==
    CASE k = "TempestHeight" -> "ST"
      [] k = "OutAirHeight"  -> "AR"
      [] k = "SkyHeight"     -> "SK"

RECURSIVE FindHeight(_, _, _, _)
FindHeight(devices, id, type, value) ==
    IF devices = <<>> THEN value
    ELSE LET D == Head(devices)
         IN  FindHeight(Tail(devices), id, type,
                        IF D.hasType /\ D.device_id = id /\ D.device_type = type
                        THEN D.agl ELSE value)

\* not Value, for Value '' or a height
Falsy(v) == v = "" \/ v = "0"

\* if RETRIES >= MAXRETRIES, with > in place of >=
RetriesExceeded(r) == r > MAXRETRIES

\* if RETRIES >= MAXRETRIES (lines 336, 353)
RetriesExhausted(r) == r >= MAXRETRIES

\* ---------------------------------------------------------------------
\* Configuration files found on disk
\* ---------------------------------------------------------------------
NoFile == [exists |-> FALSE, opts |-> EmptyConfig]

EntryOf(o) == defaultConfig[CHOOSE i \in 1..KeyCount : OptOf(defaultConfig[i]) = o]

\* The value an earlier run stored for a key of a station with a SKY, an
\* outdoor AIR and an indoor AIR, in metric units
StoredValue(d, ver, wf) ==
    CASE d.Type = "fixed"     -> wf
      [] d.Type = "default"   -> IF d.k = "Version" THEN ver ELSE d.Value
      [] d.Type = "dependent" -> IF d.k = "BarometerMax" THEN "1050" ELSE "950"
      [] d.Type = "userInput" ->
            (CASE d.k = "CheckWX"   -> "abc"
               [] d.k = "StationID" -> "12"
               [] d.k = "TempestID" -> ""
               [] d.k = "SkyID"     -> "30"
               [] d.k = "OutAirID"  -> "20"
               [] d.k = "InAirID"   -> "21")
      [] d.Type = "request" ->
            IF d.Source = "observation" THEN StationUnit(1, d.k)
            ELSE (CASE d.k = "TempestHeight" -> ""
                    [] d.k = "SkyHeight"     -> "3"
                    [] d.k = "OutAirHeight"  -> "1"
                    [] OTHER                 -> StationField(d.k))

OldFile(ver, wf, missing, legacy) ==
    [exists |-> TRUE,
     opts |-> [o \in AllOpts |->
                 IF o \in missing THEN NoOption
                 ELSE IF o \in LegacyOpts THEN (IF legacy THEN "3772" ELSE NoOption)
                 ELSE StoredValue(EntryOf(o), ver, wf)]]

\* Keys a file written by another release may lack
MissingFamilies ==
    { {Opt("Station", "TempestID"), Opt("Station", "TempestHeight")},
      {Opt("Keys", "WeatherFlow")},
      {Opt("Station", "IndoorBME280Corr")},
      {Opt("Station", "Latitude"), Opt("Units", "Other")},
      {Opt("Units", "Other")},
      {Opt("System", "BarometerMax"), Opt("System", "BarometerMin")},
      {Opt("FeelsLike", "VeryHot")},
      {Opt("Station", "SkyHeight")},
      {Opt("Station", "TempestID"), Opt("Station", "TempestHeight"),
       Opt("Station", "SkyHeight")},
      {Opt("System", "Version")} }

OtherKey == "0000-other-key"

ExistingFiles ==
    { OldFile(v, wf, {}, lg) : v \in {"v3.5", "v3.51", "v3.6", "v3.7"},
                               wf \in {WeatherFlowKey, OtherKey}, lg \in BOOLEAN }
    \cup { OldFile(v, OtherKey, M, FALSE) : v \in {"v3.5", "v3.6"}, M \in MissingFamilies }
    \cup { OldFile("v3.5", OtherKey, M, TRUE) :
               M \in { {Opt("Units", "Other")}, {Opt("FeelsLike", "VeryHot")} } }

\* ---------------------------------------------------------------------
\* The provisioning run
\* ---------------------------------------------------------------------
NoInput == "<no input>"
Cur == defaultConfig[idx]
StationIDOpt == Opt("Station", "StationID")

Quiet == lastInput' = NoInput /\ tries' = 0

\* the key is done: on to the next one
NextKey == idx' = idx + 1 /\ ppc' = "key"

\* main.py lines 26-27, create() lines 61-77
Create ==
    /\ ppc = "start" /\ mode = "create"
    /\ Config' = EmptyConfig
    /\ idx' = 1 /\ ppc' = "key"
    /\ Quiet
    /\ UNCHANGED <<iniFile, currentConfig, mode, TEMPEST, INDOORAIR, STATION, OBSERVATION,
                   RETRIES, prompted, requested, stationRequests, stationNotFound,
                   stationFailures, stationPrompts, stationRejected, obsRequests,
                   obsStationID, error>>
    /\ UNCHANGED <<fvars, svars, uvars>>

\* The new configuration begun as a copy of the existing one
newConfigFromCurrent(current) == current

\* update() lines 120-121: newConfig = configparser.ConfigParser(...)
newConfig(current) == EmptyConfig

\* main.py lines 28-29, update() lines 106-137
Update ==
    /\ ppc = "start" /\ mode = "update"
    /\ currentConfig' = iniFile.opts
    /\ Config' = newConfig(iniFile.opts)
    /\ idx' = 1
    /\ IF ~has_option(iniFile.opts, Opt("System", "Version"))
       THEN ppc' = "crash" /\ error' = "KeyError"
       ELSE /\ ppc' = IF VersionOlder(iniFile.opts[Opt("System", "Version")], Version)
                      THEN "key" ELSE "done"
            /\ error' = error
    /\ Quiet
    /\ UNCHANGED <<iniFile, mode, TEMPEST, INDOORAIR, STATION, OBSERVATION,
                   RETRIES, prompted, requested, stationRequests, stationNotFound,
                   stationFailures, stationPrompts, stationRejected, obsRequests,
                   obsStationID>>
    /\ UNCHANGED <<fvars, svars, uvars>>

AtKey == ppc = "key" /\ idx <= KeyCount
Carried == mode = "update" /\ has_option(currentConfig, OptOf(Cur))

\* update() lines 149-157 for a key the existing file holds
CopyKey ==
    /\ AtKey /\ Carried
    /\ Config' = LET c == copyConfigKey(Config, currentConfig, Cur, TEMPEST)
                 IN  IF Cur.k = "Version" THEN Set(c, OptOf(Cur), Version) ELSE c
    /\ NextKey /\ Quiet
    /\ UNCHANGED <<iniFile, currentConfig, mode, TEMPEST, INDOORAIR, STATION, OBSERVATION,
                   RETRIES, prompted, requested, stationRequests, stationNotFound,
                   stationFailures, stationPrompts, stationRejected, obsRequests,
                   obsStationID, error>>
    /\ UNCHANGED <<fvars, svars, uvars>>

\* writeConfigKey lines 283-296
WriteDefault ==
    /\ AtKey /\ ~Carried /\ Cur.Type \in {"default", "fixed"}
    /\ LET v == DefaultValue(Config, Cur)
       IN  IF Cur.k \in FeelsLikeKeys /\ ~has_option(Config, Opt("Units", "Temp"))
           THEN ppc' = "crash" /\ error' = "KeyError" /\ UNCHANGED <<Config, idx>>
           ELSE IF v = Unbound
           THEN ppc' = "crash" /\ error' = "UnboundLocalError" /\ UNCHANGED <<Config, idx>>
           ELSE Config' = Set(Config, OptOf(Cur), v) /\ NextKey /\ error' = error
    /\ Quiet
    /\ UNCHANGED <<iniFile, currentConfig, mode, TEMPEST, INDOORAIR, STATION, OBSERVATION,
                   RETRIES, prompted, requested, stationRequests, stationNotFound,
                   stationFailures, stationPrompts, stationRejected, obsRequests,
                   obsStationID>>
    /\ UNCHANGED <<fvars, svars, uvars>>

\* writeConfigKey lines 265-279
WriteDependent ==
    /\ AtKey /\ ~Carried /\ Cur.Type = "dependent"
    /\ LET v == DependentValue(Config, Cur)
       IN  IF ~has_option(Config, Opt("Units", "Pressure"))
           THEN ppc' = "crash" /\ error' = "KeyError" /\ UNCHANGED <<Config, idx>>
           ELSE IF v = Unbound
           THEN ppc' = "crash" /\ error' = "ValueError" /\ UNCHANGED <<Config, idx>>
           ELSE Config' = Set(Config, OptOf(Cur), v) /\ NextKey /\ error' = error
    /\ Quiet
    /\ UNCHANGED <<iniFile, currentConfig, mode, TEMPEST, INDOORAIR, STATION, OBSERVATION,
                   RETRIES, prompted, requested, stationRequests, stationNotFound,
                   stationFailures, stationPrompts, stationRejected, obsRequests,
                   obsStationID>>
    /\ UNCHANGED <<fvars, svars, uvars>>

\* writeConfigKey lines 209-234: the way to the prompt of a userInput key
BeginUserInput ==
    /\ AtKey /\ ~Carried /\ Cur.Type = "userInput"
    /\ IF Cur.k \in {"TempestID", "InAirID"}
       THEN ppc' = "query" /\ UNCHANGED <<Config, idx>>
       ELSE IF Cur.k \in {"SkyID", "OutAirID"} /\ TEMPEST
       THEN Config' = Set(Config, OptOf(Cur), "") /\ NextKey
       ELSE ppc' = "input" /\ UNCHANGED <<Config, idx>>
    /\ Quiet
    /\ UNCHANGED <<iniFile, currentConfig, mode, TEMPEST, INDOORAIR, STATION, OBSERVATION,
                   RETRIES, prompted, requested, stationRequests, stationNotFound,
                   stationFailures, stationPrompts, stationRejected, obsRequests,
                   obsStationID, error>>
    /\ UNCHANGED <<fvars, svars, uvars>>

\* queryUser lines 474-482 with writeConfigKey lines 215-226 and 261: one
\* answer to 'Do you own a TEMPEST?' / 'Do you own an Indoor AIR?'
Query ==
    /\ ppc = "query"
    /\ \E choice \in YesNoAnswers :
         /\ QueryValid(choice) \/ tries < MaxRejected
         /\ lastInput' = choice
         /\ IF ~QueryValid(choice)
            THEN /\ tries' = tries + 1
                 /\ UNCHANGED <<Config, idx, ppc, TEMPEST, INDOORAIR>>
            ELSE IF QueryAnswer(choice)
            THEN /\ tries' = 0
                 /\ TEMPEST' = IF Cur.k = "TempestID" THEN TRUE ELSE TEMPEST
                 /\ INDOORAIR' = IF Cur.k = "InAirID" THEN TRUE ELSE INDOORAIR
                 /\ ppc' = "input"
                 /\ UNCHANGED <<Config, idx>>
            ELSE /\ tries' = 0
                 /\ Config' = Set(Config, OptOf(Cur), "")
                 /\ NextKey
                 /\ UNCHANGED <<TEMPEST, INDOORAIR>>
    /\ prompted' = TRUE
    /\ UNCHANGED <<iniFile, currentConfig, mode, STATION, OBSERVATION,
                   RETRIES, requested, stationRequests, stationNotFound,
                   stationFailures, stationPrompts, stationRejected, obsRequests,
                   obsStationID, error>>
    /\ UNCHANGED <<fvars, svars, uvars>>

\* writeConfigKey lines 237-261: one answer to 'Please enter your ...'
Input ==
    /\ ppc = "input"
    /\ \E raw \in KeyInputs(Cur.k) :
         LET empty    == raw = ""
             rejected == \/ empty /\ Cur.State = "required"
                         \/ ~empty /\ ~FormatOk(Cur.Format, raw)
         IN  /\ ~rejected \/ tries < MaxRejected
             /\ lastInput' = raw
             /\ IF rejected
                THEN tries' = tries + 1 /\ UNCHANGED <<Config, idx, ppc>>
                ELSE /\ tries' = 0
                     /\ Config' = Set(Config, OptOf(Cur),
                                      IF empty THEN "" ELSE FormatValue(Cur.Format, raw))
                     /\ NextKey
    /\ prompted' = TRUE
    /\ UNCHANGED <<iniFile, currentConfig, mode, TEMPEST, INDOORAIR, STATION, OBSERVATION,
                   RETRIES, requested, stationRequests, stationNotFound,
                   stationFailures, stationPrompts, stationRejected, obsRequests,
                   obsStationID, error>>
    /\ UNCHANGED <<fvars, svars, uvars>>

\* writeConfigKey lines 300-311 and 340-341: which endpoint a request key
\* asks first
BeginRequest ==
    /\ AtKey /\ ~Carried /\ Cur.Type = "request"
    /\ RETRIES' = 0
    /\ ppc' = IF Cur.Source = "station" /\ STATION = None THEN "station"
              ELSE IF Cur.Source = "observation" /\ OBSERVATION = None THEN "observation"
              ELSE "tail"
    /\ Quiet
    /\ UNCHANGED <<iniFile, currentConfig, Config, mode, idx, TEMPEST, INDOORAIR, STATION,
                   OBSERVATION, prompted, requested, stationRequests, stationNotFound,
                   stationFailures, stationPrompts, stationRejected, obsRequests,
                   obsStationID, error>>
    /\ UNCHANGED <<fvars, svars, uvars>>

\* RETRIES counted up by every response but SUCCESS
StationRetriesCountNotFound(r, n) ==
    IF r.hasStatus /\ IsSuccess(r) THEN n ELSE n + 1

\* RETRIES after a station response: counted up unless the response says
\* NOT FOUND or SUCCESS (lines 316-335)
StationRetries(r, n) ==
    IF r.hasStatus /\ (IsNotFound(r) \/ IsSuccess(r)) THEN n ELSE n + 1

\* writeConfigKey lines 313-337 and 340-341: one answer of the station
\* endpoint
StationResponse ==
    /\ ppc = "station"
    /\ \E r \in StationResponses :
         /\ (r.hasStatus /\ IsNotFound(r)) => stationNotFound < MaxNotFound
         /\ STATION' = r
         /\ IF r.hasStatus /\ IsNotFound(r)
            THEN /\ ppc' = "station_id"
                 /\ stationNotFound' = stationNotFound + 1
                 /\ RETRIES' = StationRetries(r, RETRIES)
                 /\ UNCHANGED <<stationFailures, error>>
            ELSE IF r.hasStatus /\ IsSuccess(r)
            THEN /\ ppc' = "tail"
                 /\ RETRIES' = 0
                 /\ UNCHANGED <<stationNotFound, stationFailures, error>>
            ELSE /\ RETRIES' = StationRetries(r, RETRIES)
                 /\ stationFailures' = stationFailures + 1
                 /\ IF RetriesExhausted(StationRetries(r, RETRIES))
                    THEN ppc' = "exit" /\ error' = "unable to fetch station meta-data"
                    ELSE ppc' = "station" /\ error' = error
                 /\ UNCHANGED stationNotFound
    /\ requested' = TRUE
    /\ stationRequests' = stationRequests + 1
    /\ Quiet
    /\ UNCHANGED <<iniFile, currentConfig, Config, mode, idx, TEMPEST, INDOORAIR,
                   OBSERVATION, prompted, stationPrompts, stationRejected, obsRequests, obsStationID>>
    /\ UNCHANGED <<fvars, svars, uvars>>

\* The re-entered station ID left where it was
ReenteredStationDropped(cfg, raw) == cfg

\* Line 329: Config.set('Station','StationID',str(ID))
ReenteredStation(cfg, raw) == Set(cfg, StationIDOpt, IntCanon(raw))

\* writeConfigKey lines 318-329 and 336-337: one answer to 'Station not
\* found. Please re-enter your Station ID'
StationReenter ==
    /\ ppc = "station_id"
    /\ \E raw \in ReenterStationInputs :
         LET rejected == raw = "" \/ raw \notin IntStrings
         IN  /\ ~rejected \/ tries < MaxRejected
             /\ lastInput' = raw
             /\ IF rejected
                THEN /\ tries' = tries + 1
                     /\ stationRejected' = stationRejected + 1
                     /\ UNCHANGED <<Config, ppc, error>>
                ELSE /\ tries' = 0
                     /\ stationRejected' = stationRejected
                     /\ Config' = ReenteredStation(Config, raw)
                     /\ IF RetriesExhausted(RETRIES)
                        THEN ppc' = "exit" /\ error' = "unable to fetch station meta-data"
                        ELSE ppc' = "station" /\ error' = error
    /\ prompted' = TRUE
    /\ stationPrompts' = stationPrompts + 1
    /\ UNCHANGED <<iniFile, currentConfig, mode, idx, TEMPEST, INDOORAIR, STATION,
                   OBSERVATION, RETRIES, requested, stationRequests, stationNotFound,
                   stationFailures, obsRequests, obsStationID>>
    /\ UNCHANGED <<fvars, svars, uvars>>

\* The response whose status lines 346-347 test
StatusTested(station, observation) == station

\* writeConfigKey lines 342-354: one answer of the observation endpoint
ObservationResponse ==
    /\ ppc = "observation"
    /\ \E o \in ObservationResponses :
         LET tested == StatusTested(STATION, o)
         IN  /\ OBSERVATION' = o
             /\ IF tested = None
                THEN ppc' = "crash" /\ error' = "TypeError" /\ UNCHANGED RETRIES
                ELSE IF tested.hasStatus /\ IsSuccess(tested)
                THEN ppc' = "tail" /\ UNCHANGED <<RETRIES, error>>
                ELSE /\ RETRIES' = RETRIES + 1
                     /\ IF RetriesExhausted(RETRIES + 1)
                        THEN ppc' = "exit" /\ error' = "unable to fetch observation meta-data"
                        ELSE ppc' = "observation" /\ error' = error
    /\ requested' = TRUE
    /\ obsRequests' = obsRequests + 1
    /\ obsStationID' = Config[StationIDOpt]
    /\ Quiet
    /\ UNCHANGED <<iniFile, currentConfig, Config, mode, idx, TEMPEST, INDOORAIR, STATION,
                   prompted, stationRequests, stationNotFound, stationFailures,
                   stationPrompts, stationRejected>>
    /\ UNCHANGED <<fvars, svars, uvars>>

\* writeConfigKey lines 356-447: the value of a request key, once the
\* endpoints have answered
RequestTail ==
    /\ ppc = "tail"
    /\ IF Cur.s = "Station" /\ Cur.k \in HeightKeys
          /\ Config[Opt("Station", DeviceIdKey(Cur.k))] # ""
       THEN LET h == FindHeight(Devices(STATION.variant),
                                Config[Opt("Station", DeviceIdKey(Cur.k))],
                                DeviceType(Cur.k), "")
            IN  IF Falsy(h)
                THEN ppc' = "device_id" /\ UNCHANGED <<Config, idx, error>>
                ELSE Config' = Set(Config, OptOf(Cur), h) /\ NextKey /\ error' = error
       ELSE IF Cur.s = "Station" /\ Cur.k \in {"Latitude", "Longitude", "Timezone", "Name",
                                               "Elevation"}
       THEN Config' = Set(Config, OptOf(Cur), StationField(Cur.k)) /\ NextKey /\ error' = error
       ELSE IF Cur.s = "Units"
       THEN IF HasStationUnits(OBSERVATION)
            THEN /\ Config' = Set(Config, OptOf(Cur), StationUnit(OBSERVATION.variant, Cur.k))
                 /\ NextKey /\ error' = error
            ELSE ppc' = "crash" /\ error' = "KeyError" /\ UNCHANGED <<Config, idx>>
       ELSE Config' = Set(Config, OptOf(Cur), "") /\ NextKey /\ error' = error
    /\ Quiet
    /\ UNCHANGED <<iniFile, currentConfig, mode, TEMPEST, INDOORAIR, STATION, OBSERVATION,
                   RETRIES, prompted, requested, stationRequests, stationNotFound,
                   stationFailures, stationPrompts, stationRejected, obsRequests,
                   obsStationID>>
    /\ UNCHANGED <<fvars, svars, uvars>>

\* writeConfigKey lines 365-377 (390-402, 415-427): one answer to '... not
\* found. Please re-enter your ... device ID'
DeviceReenter ==
    /\ ppc = "device_id"
    /\ \E raw \in ReenterDeviceInputs(Cur.k) :
         LET rejected == raw = "" \/ raw \notin IntStrings
         IN  /\ ~rejected \/ tries < MaxRejected
             /\ lastInput' = raw
             /\ IF rejected
                THEN tries' = tries + 1 /\ UNCHANGED <<Config, ppc>>
                ELSE /\ tries' = 0
                     /\ Config' = Set(Config, Opt("Station", DeviceIdKey(Cur.k)), IntCanon(raw))
                     /\ ppc' = "tail"
    /\ prompted' = TRUE
    /\ UNCHANGED <<iniFile, currentConfig, mode, idx, TEMPEST, INDOORAIR, STATION,
                   OBSERVATION, RETRIES, requested, stationRequests, stationNotFound,
                   stationFailures, stationPrompts, stationRejected, obsRequests,
                   obsStationID, error>>
    /\ UNCHANGED <<fvars, svars, uvars>>

\* create() lines 96-97, update() lines 164-165
\* The file written after every key, not only after the last
WriteFileAfterEveryKey ==
    /\ ppc = "key" /\ idx > 1
    /\ iniFile # [exists |-> TRUE, opts |-> Config]
    /\ iniFile' = [exists |-> TRUE, opts |-> Config]
    /\ ppc' = IF idx = KeyCount + 1 THEN "done" ELSE ppc
    /\ Quiet
    /\ UNCHANGED <<currentConfig, Config, mode, idx, TEMPEST, INDOORAIR, STATION,
                   OBSERVATION, RETRIES, prompted, requested, stationRequests,
                   stationNotFound, stationFailures, stationPrompts, stationRejected, obsRequests,
                   obsStationID, error>>
    /\ UNCHANGED <<fvars, svars, uvars>>

\* create() lines 95-97, update() lines 163-165: the file is written once
\* the loops over the schema have ended
WriteFile ==
    /\ ppc = "key" /\ idx = KeyCount + 1
    /\ iniFile' = [exists |-> TRUE, opts |-> Config]
    /\ ppc' = "done"
    /\ Quiet
    /\ UNCHANGED <<currentConfig, Config, mode, idx, TEMPEST, INDOORAIR, STATION,
                   OBSERVATION, RETRIES, prompted, requested, stationRequests,
                   stationNotFound, stationFailures, stationPrompts, stationRejected, obsRequests,
                   obsStationID, error>>
    /\ UNCHANGED <<fvars, svars, uvars>>

ProvisionNext ==
    \/ Create \/ Update \/ CopyKey \/ WriteDefault \/ WriteDependent
    \/ BeginUserInput \/ Query \/ Input
    \/ BeginRequest \/ StationResponse \/ StationReenter \/ ObservationResponse
    \/ RequestTail \/ DeviceReenter \/ WriteFile

ProvisionStart(file) ==
    /\ iniFile = file
    /\ mode = IF file.exists THEN "update" ELSE "create"
    /\ currentConfig = EmptyConfig
    /\ Config = EmptyConfig
    /\ ppc = "start"
    /\ idx = 1
    /\ TEMPEST = FALSE
    /\ INDOORAIR = FALSE
    /\ STATION = None
    /\ OBSERVATION = None
    /\ RETRIES = 0
    /\ lastInput = NoInput
    /\ tries = 0
    /\ prompted = FALSE
    /\ requested = FALSE
    /\ stationRequests = 0
    /\ stationNotFound = 0
    /\ stationFailures = 0
    /\ stationPrompts = 0
    /\ stationRejected = 0
    /\ obsRequests = 0
    /\ obsStationID = ""
    /\ error = ""


\* ---------------------------------------------------------------------
\* Download assignment by assignment, with the readers of the snapshot
\* ---------------------------------------------------------------------
\* Lines 153-178: the assignments of the labels, in the order of the code
LabelWrites(D, t, called) ==
    << <<"Time", called>>,
       <<"Valid", ToString(D.Hours[HoursInd(D, t) + 1])>>,
       <<"Temp", Formatted("Temp", D)>>,
       <<"highTemp", Formatted("highTemp", D)>>,
       <<"lowTemp", Formatted("lowTemp", D)>>,
       <<"WindSpd", Formatted("WindSpd", D)>>,
       <<"WindGust", Formatted("WindGust", D)>>,
       <<"WindDir", Formatted("WindDir", D)>>,
       <<"PrecipPercnt", Formatted("PrecipPercnt", D)>>,
       <<"PrecipDay", Formatted("PrecipDay", D)>>,
       <<"PrecipAmount", Formatted("PrecipAmount", D)>>,
       <<"PrecipType", "rain">>,
       <<"Conditions", ConditionsText(D, t)>>,
       <<"Icon", WithoutCC(D.icon)>>,
       <<"Status", "">>,
       <<"Icon", Checked(WithoutCC(D.icon))>> >>

\* Lines 180-181
StationWrites == << <<"stationOnline", TRUE>>, <<"stationUsed", TRUE>> >>

\* Lines 186-204: the assignments of the except handler
HandlerWrites(called) ==
    << <<"Time", called>>,
       <<"Valid", Sentinel>>,
       <<"Temp", Sentinel>>,
       <<"highTemp", Sentinel>>,
       <<"lowTemp", Sentinel>>,
       <<"WindSpd", Sentinel>>,
       <<"WindGust", Sentinel>>,
       <<"WindDir", Sentinel>>,
       <<"PrecipPercnt", Sentinel>>,
       <<"PrecipDay", Sentinel>>,
       <<"PrecipAmount", Sentinel>>,
       <<"PrecipType", Sentinel>>,
       <<"Conditions", "">>,
       <<"Icon", Sentinel>>,
       <<"Status", UnavailableText>>,
       <<"stationOnline", FALSE>>,
       <<"stationUsed", FALSE>> >>

\* Lines 75-204: every assignment to metData the try statement makes
Writes(D, t, called) ==
    IF LookupError(D, t) # "none" THEN HandlerWrites(called)
    ELSE IF StationError(D) # "none"
         THEN LabelWrites(D, t, called) \o HandlerWrites(called)
         ELSE LabelWrites(D, t, called) \o StationWrites

\* Lines 67-72: the response is verified and metData['Dict'] assigned
SnapshotVerify ==
    /\ fpc = "fetching"
    /\ LET valid == verifyResponse(Data)
           dict  == StoredDict(valid, Data, metData)
       IN  /\ metData' = [metData EXCEPT !.Dict = dict]
           /\ funcError' = IF valid THEN 0 ELSE 1
           /\ hoursInd' = IF dict.state = "payload" /\ dict.defect # "no_hourly"
                          THEN HoursInd(dict, UnixTime(clock)) ELSE -1
    /\ previous' = metData
    /\ wstep' = 0
    /\ fpc' = "assigning"
    /\ UNCHANGED <<clock, timers, downloads, pool, budget, funcCalled, Now, Data,
                   raised, secondsSched, panels, observed>>
    /\ UNCHANGED <<pvars, svars, uvars>>

\* One assignment metData[key] = value of lines 153-204
SnapshotAssign ==
    /\ fpc = "assigning"
    /\ LET W == Writes(metData.Dict, UnixTime(clock), funcCalled)
       IN  /\ wstep < Len(W)
           /\ metData' = [metData EXCEPT ![W[wstep + 1][1]] = W[wstep + 1][2]]
    /\ wstep' = wstep + 1
    /\ UNCHANGED <<clock, fpc, timers, downloads, pool, budget, funcCalled, Now,
                   funcError, Data, hoursInd, raised, secondsSched, panels,
                   previous, observed>>
    /\ UNCHANGED <<pvars, svars, uvars>>

\* Lines 209-221: the next Download is scheduled, ExtractDaily fills the panels
SnapshotEnd ==
    /\ fpc = "assigning"
    /\ wstep = Len(Writes(metData.Dict, UnixTime(clock), funcCalled))
    /\ LET exc  == TryError(metData.Dict, UnixTime(clock))
           err  == IF funcError = 0 /\ exc = "none" THEN 0 ELSE 1
           secs == ScheduleDelay(err, funcCalled, clock)
       IN  /\ raised' = exc
           /\ funcError' = err
           /\ Now' = clock
           /\ secondsSched' = secs
           /\ timers' = timers \cup {clock + (IF secs > 0 THEN Ticks(secs) ELSE 0)}
    /\ panels' = ExtractDaily(metData.Dict)
    /\ Data' = NoResponse
    /\ fpc' = "idle"
    /\ UNCHANGED <<clock, downloads, pool, budget, funcCalled, metData, hoursInd,
                   wstep, previous, observed>>
    /\ UNCHANGED <<pvars, svars, uvars>>

\* A handler thread, or a callback bound to MetData, reads the snapshot
Read ==
    /\ observed' = [during |-> fpc # "idle", at |-> wstep, download |-> downloads,
                    labels |-> metData]
    /\ UNCHANGED <<clock, fpc, timers, downloads, pool, budget, funcCalled, Now,
                   funcError, Data, metData, hoursInd, raised, secondsSched, panels,
                   wstep, previous>>
    /\ UNCHANGED <<pvars, svars, uvars>>

SnapshotNext ==
    \/ DownloadRequest
    \/ SnapshotVerify
    \/ SnapshotAssign
    \/ SnapshotEnd
    \/ Read

\* The labels of the snapshot: every key but the stored response
LabelFields == (DOMAIN InitialMetData) \ {"Dict"}

\* The snapshot the running Download ends with
Fetched == TryExtract([previous EXCEPT !.Dict = metData.Dict], UnixTime(clock), funcCalled)

SameLabels(a, b) == \A f \in LabelFields : a[f] = b[f]

\* C20 as stated: what a reader sees between the start and the end of a
\* Download is the snapshot as a whole: every label as the Download found it
\* or every label as the Download leaves it, never some of each.
C20_ReadersSeeWholeSnapshots ==
    (observed.during /\ observed.download = downloads /\ fpc # "fetching")
        => \/ SameLabels(observed.labels, previous)
           \/ SameLabels(observed.labels, Fetched)

\* The assignments of a Download, made one after the other, end in the
\* snapshot of the try statement taken as a whole
SnapshotAssembled ==
    (fpc = "assigning" /\ wstep = Len(Writes(metData.Dict, UnixTime(clock), funcCalled)))
        => metData = Fetched


\* C11 as stated: after Download (and the ExtractDaily it ends with) the
\* snapshot's Icon and every daily panel's weather is a code of the
\* documented icon set or the '--' sentinel.
C11_PublishedIconDocumented ==
    DownloadDone
        => /\ metData.Icon \in DocumentedIcons \cup {Sentinel}
           /\ \A i \in 1..MaxPanels : panels[i] \in DocumentedIcons \cup {Sentinel}

\* ---------------------------------------------------------------------
\* Provisioning service: properties
\* ---------------------------------------------------------------------
VersionOpt == Opt("System", "Version")
SchemaComplete(cfg) == \A o \in SchemaOpts : has_option(cfg, o)

\* Versions that packaging orders before the schema's
OlderVersions ==
    { v \in KnownVersions : ReleaseLess(ParseVersion(TweakVersion(v)), ParseVersion(Version)) }

\* The run has come to its end without an error
RunDone == ppc = "done"

\* The run has come to its end and has written wfpiconsole.ini: create(),
\* or update() of a file of an older version
Written ==
    /\ RunDone
    /\ mode = "create" \/ currentConfig[VersionOpt] \in OlderVersions

\* C1 as stated: after any provisioning run, whatever the existing file
\* held, every key of the default schema is present in the configuration.
C1_EveryRunLeavesAllKeys == RunDone => SchemaComplete(iniFile.opts)

\* C1 amended: every configuration written by a provisioning run (create(),
\* or update() of a file whose version is older than the schema's) holds
\* every key of the default schema.
C1_WrittenFileHasAllKeys == Written => SchemaComplete(iniFile.opts)

C1_Witness ==
    /\ Written /\ mode = "update"
    /\ ~SchemaComplete(currentConfig)
    /\ SchemaComplete(iniFile.opts)
    /\ TEMPEST

\* C2: in every configuration written by provisioning, each key of kind
\* fixed holds the schema's literal, whatever the existing file held for
\* it and whatever the user typed.
C2_FixedKeysHoldLiteral ==
    Written => \A i \in 1..KeyCount :
                   defaultConfig[i].Type = "fixed"
                       => iniFile.opts[OptOf(defaultConfig[i])] = defaultConfig[i].Value

C2_Witness ==
    /\ Written /\ mode = "update" /\ prompted
    /\ currentConfig[Opt("Keys", "WeatherFlow")] = OtherKey
    /\ iniFile.opts[Opt("Keys", "WeatherFlow")] = WeatherFlowKey

\* C3: update() of a file whose System.Version is not older than the
\* schema's does nothing: no prompt, no remote request, and the file is
\* left exactly as it was.
C3_UpToDateIsNoOp ==
    (/\ mode = "update" /\ ppc # "start"
     /\ has_option(currentConfig, VersionOpt)
     /\ currentConfig[VersionOpt] \notin OlderVersions)
        => /\ RunDone
           /\ ~prompted /\ ~requested
           /\ iniFile = [exists |-> TRUE, opts |-> currentConfig]

C3_Witness ==
    /\ mode = "update" /\ RunDone
    /\ currentConfig[VersionOpt] = Version
    /\ ~SchemaComplete(iniFile.opts)
    /\ ~prompted /\ ~requested

StationFetchFailed == ppc = "exit" /\ error = "unable to fetch station meta-data"

\* C4: the station fetch ends the run with its error message exactly when
\* MAXRETRIES responses have failed; no station request follows the third
\* failure; and the run goes on past the fetch only with a SUCCESS response.
C4_StationFetchEndsAtMaxRetries ==
    /\ [](/\ StationFetchFailed <=> stationFailures = MAXRETRIES
          /\ stationFailures <= MAXRETRIES
          /\ (STATION # None /\ ppc \notin {"station", "station_id"} /\ ~StationFetchFailed)
                 => STATION.hasStatus /\ IsSuccess(STATION))
    /\ [][stationFailures >= MAXRETRIES => stationRequests' = stationRequests]_vars

C4_Witness ==
    /\ StationFetchFailed
    /\ stationFailures = MAXRETRIES
    /\ stationNotFound > 0
    /\ stationRequests = MAXRETRIES + stationNotFound

ObservationFailed == OBSERVATION # None /\ ~(OBSERVATION.hasStatus /\ IsSuccess(OBSERVATION))

\* C5 as stated: when the observation response is a failure the fetch is
\* repeated, the run ends after MAXRETRIES such failures, and station_units
\* is never read from a response that was not successful: after a failed
\* observation response the run is fetching again or has ended with the
\* observation error.
C5_ObservationRetried ==
    ObservationFailed
        => \/ ppc = "observation" /\ RETRIES < MAXRETRIES
           \/ ppc = "exit" /\ error = "unable to fetch observation meta-data"
                 /\ RETRIES = MAXRETRIES

\* Station IDs the re-prompt accepts, as stored
CorrectedIDs == { IntCanon(raw) : raw \in ReenterStationInputs \cap IntStrings }

\* The station endpoint has answered NOT FOUND once and then SUCCESS, the
\* user having typed a valid ID at the re-prompt
NotFoundThenSuccess ==
    /\ stationRequests = 2 /\ stationNotFound = 1 /\ stationRejected = 0
    /\ STATION # None /\ STATION.hasStatus /\ IsSuccess(STATION)

\* C6: when the station endpoint answers NOT FOUND once and then SUCCESS
\* after a valid re-entry, the station ID has been prompted for exactly
\* once, Station.StationID holds the re-entered ID, the run has not been
\* ended, and any observation request made afterwards used the re-entered ID.
C6_ReenteredOnce ==
    NotFoundThenSuccess
        => /\ stationPrompts = 1
           /\ Config[StationIDOpt] \in CorrectedIDs
           /\ ppc # "exit"
           /\ (mode = "create" /\ ~ObservationFailed) => ppc # "crash"
           /\ obsRequests > 0 => obsStationID \in CorrectedIDs
           /\ Written => iniFile.opts[StationIDOpt] \in CorrectedIDs

C6_Witness ==
    /\ NotFoundThenSuccess
    /\ obsRequests > 0
    /\ Written
    /\ iniFile.opts[StationIDOpt] = "13"

\* ---------------------------------------------------------------------
\* Telemetry stream client: WeatherFlowClientFactory's reconnection
\* (twisted's ReconnectingClientFactory with the class attributes of
\* main.py lines 115-117)
\* ---------------------------------------------------------------------
maxDelay       == 60
TimeoutSeconds == 300

\* Delays are counted in thousandths of a second
Thousandths  == 1000
\* ReconnectingClientFactory.initialDelay and .factor (e), which the
\* factory does not override
initialDelay == 1
factor       == 2718
\* ReconnectingClientFactory.maxDelay, which the factory overrides
libraryMaxDelay == 3600

\* retry() with the library's ceiling, as if only self.maxdelay were set
NextDelayLibraryCeiling(d) ==
    IF (d * factor) \div Thousandths < libraryMaxDelay * Thousandths
    THEN (d * factor) \div Thousandths
    ELSE libraryMaxDelay * Thousandths

\* retry(): self.delay = min(self.delay * self.factor, self.maxDelay);
\* jitter is 0, so nothing is added
NextDelay(d) ==
    IF (d * factor) \div Thousandths < maxDelay * Thousandths
    THEN (d * factor) \div Thousandths
    ELSE maxDelay * Thousandths

\* resetDelay() leaving the delay where the failures put it
resetDelayKept(d) == d

\* resetDelay(): self.delay = self.initialDelay
resetDelay(d) == initialDelay * Thousandths

\* retry() giving up after three retries
GivesUpAfterThree(n) == n > 3

\* retry(): maxRetries is None, so it never gives up
GivesUp(n) == FALSE

\* retry() scheduling no reconnector
RetryNever(c) == c

\* retry() scheduling the reconnector twice
RetryTwice(c) == c + 2

\* retry(): one more reconnector call is pending
Retry(c) == c + 1

\* ---------------------------------------------------------------------
\* Telemetry stream client: frames and their dispatch
\* ---------------------------------------------------------------------
\* config['Station'] of the stations the console may run on
Station(t, s, o, i) == [TempestID |-> t, SkyID |-> s, OutAirID |-> o, InAirID |-> i]
Stations ==
    { Station("10", "30", "20", "21"),
      Station("", "30", "20", "21"),
      Station("10", "", "", ""),
      Station("", "30", "20", "20"),
      Station("", "", "20", ""),
      Station("", "", "", "21"),
      Station("", "", "", "") }

\* int() of a configured device ID
IntOf(id) ==
    CASE id = "10" -> 10 [] id = "20" -> 20 [] id = "21" -> 21 [] id = "30" -> 30

\* Frames: Msg['type'] (NoType when the frame has none) and Msg['device_id']
\* (NoDevice when the frame has none)
NoType   == "<no type>"
NoDevice == -1
Frame(type, device) == [type |-> type, device_id |-> device]
NoFrame == Frame("<no frame>", NoDevice)
Frames ==
    { Frame(t, 10) : t \in {"connection_opened", "obs_st", "obs_sky", "rapid_wind",
                            "evt_strike", "ack", NoType} }
    \cup { Frame("obs_air", d) : d \in {20, 21, 99, NoDevice} }

\* A message handed to WebsocketSendMessage
Listen(type, device, id) == [type |-> type, device_id |-> device, id |-> id]

\* Lines 401-414 with if in place of elif: both devices are subscribed to
WindSubscriptionsBoth(cfg) ==
    (IF cfg.TempestID # ""
     THEN << Listen("listen_start", cfg.TempestID, "Sky"),
             Listen("listen_rapid_start", cfg.TempestID, "rapidWind") >>
     ELSE << >>)
    \o (IF cfg.SkyID # ""
        THEN << Listen("listen_start", cfg.SkyID, "Sky"),
                Listen("listen_rapid_start", cfg.SkyID, "rapidWind") >>
        ELSE << >>)

\* WebsocketDecodeMessage lines 401-423: the subscriptions asked for on
\* connection_opened
WindSubscriptions(cfg) ==
    IF cfg.TempestID # ""
    THEN << Listen("listen_start", cfg.TempestID, "Sky"),
            Listen("listen_rapid_start", cfg.TempestID, "rapidWind") >>
    ELSE IF cfg.SkyID # ""
    THEN << Listen("listen_start", cfg.SkyID, "Sky"),
            Listen("listen_rapid_start", cfg.SkyID, "rapidWind") >>
    ELSE << >>

\* Lines 415-422 without their tests: both AIR devices are subscribed to,
\* configured or not
AirSubscriptionsUntested(cfg) ==
    << Listen("listen_start", cfg.OutAirID, "OutdoorAir"),
       Listen("listen_start", cfg.InAirID, "IndoorAir") >>

AirSubscriptions(cfg) ==
    (IF cfg.OutAirID # ""
     THEN << Listen("listen_start", cfg.OutAirID, "OutdoorAir") >> ELSE << >>)
    \o (IF cfg.InAirID # ""
        THEN << Listen("listen_start", cfg.InAirID, "IndoorAir") >> ELSE << >>)

Subscriptions(cfg) == WindSubscriptions(cfg) \o AirSubscriptions(cfg)

\* WebsocketSendMessage without its test of proto
TransmittedAlways(msgs, p) == [i \in 1..Len(msgs) |-> [msg |-> msgs[i], on |-> p]]

\* WebsocketSendMessage lines 386-390: the messages that go out, each with
\* the protocol it goes out on
Transmitted(msgs, p) ==
    IF p # 0 THEN [i \in 1..Len(msgs) |-> [msg |-> msgs[i], on |-> p]] ELSE << >>

\* Lines 433-439 with the indoor test also applied to the outdoor handler's
\* place: every obs_air frame of a configured AIR starts both handlers
AirHandlersAny(cfg, Msg) ==
    IF (cfg.InAirID # "" /\ Msg.device_id = IntOf(cfg.InAirID))
       \/ (cfg.OutAirID # "" /\ Msg.device_id = IntOf(cfg.OutAirID))
    THEN {"indoorAir", "outdoorAir"} ELSE {}

\* Lines 433-439: the handlers an obs_air frame starts
AirHandlers(cfg, Msg) ==
    (IF cfg.InAirID # "" /\ Msg.device_id = IntOf(cfg.InAirID)
     THEN {"indoorAir"} ELSE {})
    \cup (IF cfg.OutAirID # "" /\ Msg.device_id = IntOf(cfg.OutAirID)
          THEN {"outdoorAir"} ELSE {})

\* WebsocketDecodeMessage raises: KeyError at line 397 for a frame without
\* 'type', at lines 434-436 for an obs_air frame without 'device_id'
DecodeRaises(cfg, Msg) ==
    \/ Msg.type = NoType
    \/ /\ Msg.type = "obs_air" /\ Msg.device_id = NoDevice
       /\ cfg.InAirID # "" \/ cfg.OutAirID # ""

\* The handler threads WebsocketDecodeMessage starts
Handlers(cfg, Msg) ==
    IF DecodeRaises(cfg, Msg) THEN {}
    ELSE CASE Msg.type = "obs_st"     -> {"Tempest"}
           [] Msg.type = "obs_sky"    -> {"Sky"}
           [] Msg.type = "obs_air"    -> AirHandlers(cfg, Msg)
           [] Msg.type = "rapid_wind" -> {"rapidWind"}
           [] Msg.type = "evt_strike" -> {"evt_strike"}
           [] OTHER                   -> {}

\* The messages WebsocketDecodeMessage hands to WebsocketSendMessage
Requests(cfg, Msg) ==
    IF Msg.type = "connection_opened" THEN Subscriptions(cfg) ELSE << >>

\* ---------------------------------------------------------------------
\* Telemetry stream client: the events of the reactor
\* ---------------------------------------------------------------------
\* No frame is being dispatched
Silent ==
    /\ lastFrame' = NoFrame /\ sent' = << >> /\ started' = {} /\ timerReset' = FALSE

\* clientConnectionFailed / clientConnectionLost, lines 119-125:
\* self.retry(connector)
RetryConnector ==
    /\ retries' = retries + 1
    /\ failures' = failures + 1
    /\ IF GivesUp(retries + 1)
       THEN UNCHANGED <<delay, calls>>
       ELSE delay' = NextDelay(delay) /\ calls' = Retry(calls)

\* The transport of the latest attempt goes down: onClose (lines 107-109),
\* then the connector tells the factory
ConnectionGone(how, timerLeft) ==
    /\ live' = live \ {attempts}
    /\ opened' = opened \ {attempts}
    /\ proto' = 0
    /\ connector' = "disconnected"
    /\ closedHow' = how
    /\ stale' = IF timerLeft /\ attempts \in opened THEN stale + 1 ELSE stale
    /\ idle' = 0
    /\ RetryConnector
    /\ UNCHANGED <<spc, stationCfg, attempts, connectorError>>

\* WebsocketConnect, lines 379-382, with the factory's __init__ (127-131)
WebsocketConnect ==
    /\ spc = "start"
    /\ spc' = "running"
    /\ proto' = 0
    /\ delay' = initialDelay * Thousandths /\ retries' = 0 /\ calls' = 0
    /\ connector' = "connecting"
    /\ attempts' = attempts + 1
    /\ live' = live \cup {attempts + 1}
    /\ Silent
    /\ UNCHANGED <<stationCfg, opened, closedHow, connectorError, failures, timerVars>>
    /\ UNCHANGED <<fvars, pvars, hvars, uvars>>

\* The connection cannot be established (refused, or the 20 s of line 382
\* have passed): clientConnectionFailed, lines 119-121
ConnectFailed ==
    /\ connector = "connecting"
    /\ failures < MaxFailures
    /\ ConnectionGone("failed", FALSE)
    /\ Silent
    /\ UNCHANGED <<fvars, pvars, hvars, uvars>>

\* The transport is established; the opening handshake begins
Connected ==
    /\ connector = "connecting"
    /\ connector' = "connected"
    /\ Silent
    /\ UNCHANGED <<spc, stationCfg, live, opened, attempts, proto, closedHow,
                   connectorError, retryVars, timerVars>>
    /\ UNCHANGED <<fvars, pvars, hvars, uvars>>

\* onOpen, lines 85-92: resetDelay() puts delay and retries back
Opened ==
    /\ connector = "connected"
    /\ attempts \notin opened
    /\ opened' = opened \cup {attempts}
    /\ proto' = attempts
    /\ delay' = resetDelay(delay) /\ retries' = 0
    /\ idle' = 0
    /\ Silent
    /\ UNCHANGED <<spc, stationCfg, connector, live, attempts, closedHow,
                   connectorError, calls, failures, stale>>
    /\ UNCHANGED <<fvars, pvars, hvars, uvars>>

\* The connection is lost (closed by the server, dropped by the network, or
\* the handshake fails): onClose, then clientConnectionLost, lines 123-125.
\* The timeout call of the protocol is not cancelled.
Lost ==
    /\ connector = "connected"
    /\ failures < MaxFailures
    /\ ConnectionGone("lost", TRUE)
    /\ Silent
    /\ UNCHANGED <<fvars, pvars, hvars, uvars>>

\* Time passes on an open connection without a frame
Tick ==
    /\ attempts \in opened
    /\ idle < TimeoutSeconds
    /\ idle' = IF idle + TimeoutSeconds \div TicksPerTimeout < TimeoutSeconds
               THEN idle + TimeoutSeconds \div TicksPerTimeout
               ELSE TimeoutSeconds
    /\ Silent
    /\ UNCHANGED <<spc, stationCfg, linkVars, retryVars, stale>>
    /\ UNCHANGED <<fvars, pvars, hvars, uvars>>

\* timeoutConnection, lines 103-105, TimeoutSeconds after the last reset:
\* transport.abortConnection() drops the connection at once
TimeoutFires ==
    /\ attempts \in opened
    /\ idle = TimeoutSeconds
    /\ failures < MaxFailures
    /\ ConnectionGone("aborted", FALSE)
    /\ Silent
    /\ UNCHANGED <<fvars, pvars, hvars, uvars>>

\* timeoutConnection of a protocol whose connection is already gone:
\* abortConnection() on a disconnected transport does nothing
StaleTimeout ==
    /\ stale > 0
    /\ stale' = stale - 1
    /\ Silent
    /\ UNCHANGED <<spc, stationCfg, linkVars, retryVars, idle>>
    /\ UNCHANGED <<fvars, pvars, hvars, uvars>>

\* The reconnector scheduled by retry(): connector.connect(), which raises
\* unless the connector is disconnected
Reconnect ==
    /\ calls > 0
    /\ calls' = calls - 1
    /\ IF connector = "disconnected"
       THEN /\ connector' = "connecting"
            /\ attempts' = attempts + 1
            /\ live' = live \cup {attempts + 1}
            /\ UNCHANGED connectorError
       ELSE /\ connectorError' = TRUE
            /\ UNCHANGED <<connector, attempts, live>>
    /\ Silent
    /\ UNCHANGED <<spc, stationCfg, opened, proto, closedHow, delay, retries,
                   failures, timerVars>>
    /\ UNCHANGED <<fvars, pvars, hvars, uvars>>

\* onMessage, lines 94-101, with WebsocketDecodeMessage, lines 394-447.
\* When the dispatch raises, line 101 is not reached; what the websocket
\* library then does with the connection is not fixed by this code: it
\* either drops it or logs the error and keeps it.
onMessage(Msg, dropped) ==
    LET raises == DecodeRaises(stationCfg, Msg)
    IN  /\ lastFrame' = Msg
        /\ started' = Handlers(stationCfg, Msg)
        /\ sent' = IF raises THEN << >>
                   ELSE Transmitted(Requests(stationCfg, Msg), proto)
        /\ timerReset' = ~raises
        /\ IF ~raises
           THEN /\ ~dropped
                /\ idle' = 0
                /\ UNCHANGED <<spc, stationCfg, linkVars, retryVars, stale>>
           ELSE IF dropped
           THEN /\ failures < MaxFailures
                /\ ConnectionGone("error", TRUE)
           ELSE UNCHANGED <<spc, stationCfg, linkVars, retryVars, timerVars>>

\* A frame arrives; the threads it starts are in started, what becomes of
\* them afterwards is followed by Dispatch
Received ==
    /\ attempts \in opened
    /\ \E Msg \in Frames, dropped \in BOOLEAN : onMessage(Msg, dropped)
    /\ UNCHANGED <<fvars, pvars, hvars, uvars>>

\* The handler threads of a frame in the order lines 425-447 start them
\* (an obs_air frame: indoorAir before outdoorAir)
StartOrder == <<"Tempest", "Sky", "indoorAir", "outdoorAir", "rapidWind", "evt_strike">>

RECURSIVE Started(_, _, _)
Started(H, n, i) ==
    IF i > Len(StartOrder) THEN << >>
    ELSE (IF StartOrder[i] \in H THEN << [name |-> StartOrder[i], frame |-> n] >>
          ELSE << >>) \o Started(H, n, i + 1)

\* The receive path calls the handler itself and returns when it has
WaitsForHandlers(running) == running # << >>

\* Thread(target=..., args=(Msg,self)).start(): the receive path goes on
\* without waiting for the threads it started
Waits(running) == FALSE

\* A frame arrives while earlier handler threads may still be running
Dispatch ==
    /\ attempts \in opened
    /\ arrivals < MaxFrames
    /\ ~Waits(threads)
    /\ \E Msg \in Frames, dropped \in BOOLEAN :
         /\ onMessage(Msg, dropped)
         /\ threads' = threads \o Started(Handlers(stationCfg, Msg), arrivals + 1, 1)
    /\ arrivals' = arrivals + 1
    /\ UNCHANGED <<done, fvars, pvars, uvars>>

\* A handler thread returns: any of the running ones, whatever its age
HandlerDone ==
    /\ \E i \in 1..Len(threads) :
         /\ done' = Append(done, threads[i])
         /\ threads' = [j \in 1..(Len(threads) - 1) |->
                           IF j < i THEN threads[j] ELSE threads[j + 1]]
    /\ UNCHANGED <<arrivals, spc, stationCfg, linkVars, retryVars, timerVars, frameVars>>
    /\ UNCHANGED <<fvars, pvars, uvars>>

DispatchNext ==
    \/ WebsocketConnect \/ Connected \/ Opened \/ Tick \/ TimeoutFires
    \/ Dispatch \/ HandlerDone

\* WebsocketSendMessage, lines 386-390, called by the application
SendMessage ==
    /\ spc = "running"
    /\ sent' = Transmitted(<< Listen("listen_start", "10", "Sky") >>, proto)
    /\ lastFrame' = NoFrame /\ started' = {} /\ timerReset' = FALSE
    /\ UNCHANGED <<spc, stationCfg, linkVars, retryVars, timerVars>>
    /\ UNCHANGED <<fvars, pvars, hvars, uvars>>

StreamNext ==
    \/ WebsocketConnect \/ ConnectFailed \/ Connected \/ Opened \/ Lost
    \/ Tick \/ TimeoutFires \/ StaleTimeout \/ Reconnect \/ Received \/ SendMessage

StreamStart(cfg) ==
    /\ spc = "start"
    /\ stationCfg = cfg
    /\ connector = "disconnected"
    /\ live = {} /\ opened = {} /\ attempts = 0
    /\ proto = 0
    /\ closedHow = ""
    /\ connectorError = FALSE
    /\ delay = initialDelay * Thousandths /\ retries = 0 /\ calls = 0
    /\ failures = 0
    /\ idle = 0 /\ stale = 0
    /\ lastFrame = NoFrame /\ sent = << >> /\ started = {} /\ timerReset = FALSE
    /\ threads = << >> /\ arrivals = 0 /\ done = << >>

\* ---------------------------------------------------------------------
\* Telemetry stream client: properties
\* ---------------------------------------------------------------------
Floor   == initialDelay * Thousandths
Ceiling == maxDelay * Thousandths

\* C12: over consecutive failures and losses with no open in between the
\* reconnect delay never decreases, is multiplied by the same factor at each
\* failure starting from its floor, with nothing random added, never
\* exceeds 60, and stays at 60 once it is there.
C12_BackoffGrowsToCeiling ==
    /\ [](delay <= Ceiling /\ delay >= Floor /\ (retries = 0 => delay = Floor))
    /\ [][retries' = retries + 1
             => /\ delay' >= delay
                /\ delay' > delay \/ delay = Ceiling
                /\ (delay * factor) \div Thousandths <= Ceiling
                       => delay' = (delay * factor) \div Thousandths
                /\ (delay * factor) \div Thousandths > Ceiling => delay' = Ceiling]_vars

C12_Witness == retries = MaxFailures /\ delay = Ceiling /\ calls = 1

\* C13: after every failure to connect and every loss of the connection,
\* the timeout's abort included, a new connection attempt is eventually
\* made, however many failures came before.
C13_AlwaysRetried ==
    (spc = "running" /\ connector = "disconnected") ~> (connector = "connecting")

C13_Witness ==
    /\ connector = "connecting" /\ retries = MaxFailures - 1
    /\ closedHow = "failed" /\ stale > 0

\* The devices the wind subscriptions of the last dispatch were sent for
WindDevices ==
    { sent[i].msg.device_id :
        i \in { j \in 1..Len(sent) :
                  \/ sent[j].msg.type = "listen_rapid_start"
                  \/ sent[j].msg.id = "Sky" } }

\* C14: on connection_opened with TempestID and SkyID both set, listen_start
\* and listen_rapid_start are sent for the TempestID device and not for the
\* SkyID device; whatever the configuration, at most one device gets the
\* wind subscriptions.
C14_WindSubscriptionsForOneDevice ==
    lastFrame.type = "connection_opened"
        => /\ Cardinality(WindDevices) <= 1
           /\ (stationCfg.TempestID # "" /\ stationCfg.SkyID # "")
                  => /\ WindDevices = {stationCfg.TempestID}
                     /\ \E i \in 1..Len(sent) : sent[i].msg.type = "listen_start"
                                                /\ sent[i].msg.id = "Sky"
                     /\ \E i \in 1..Len(sent) : sent[i].msg.type = "listen_rapid_start"

C14_Witness ==
    /\ lastFrame.type = "connection_opened"
    /\ stationCfg.TempestID # "" /\ stationCfg.SkyID # ""
    /\ Len(sent) = 4

\* C15: at most one connection is open or being established at any time; a
\* reconnect is scheduled only when the previous connection is gone, and the
\* connector is never asked to connect while a connection is live.
C15_OneConnection ==
    /\ Cardinality(live) <= 1
    /\ ~connectorError
    /\ calls <= 1
    /\ calls > 0 => live = {} /\ connector = "disconnected"
    /\ live # {} <=> connector \in {"connecting", "connected"}

C15_Witness ==
    /\ attempts > 2 /\ live = {attempts}
    /\ closedHow = "aborted" /\ stale > 0

\* C16: factory._proto is set exactly while a connection is open (between
\* its onOpen and its onClose) and then refers to that connection;
\* WebsocketSendMessage transmits if and only if a connection is open, and
\* on that connection.
C16_SendOnlyWhenOpen ==
    /\ [](/\ proto # 0 <=> opened # {}
          /\ proto # 0 => opened = {proto} /\ proto = attempts /\ proto \in live)
    /\ [][SendMessage
             => /\ sent' # << >> <=> attempts \in opened
                /\ \A i \in 1..Len(sent') : sent'[i].on = attempts]_vars

C16_Witness ==
    /\ lastFrame = NoFrame /\ sent # << >>
    /\ attempts > 1 /\ sent[1].on = attempts

\* C17 as stated: every received frame resets the inactivity timeout,
\* whatever it holds: after onMessage the timeout has been reset.
C17_EveryFrameResetsTimeout == lastFrame # NoFrame => timerReset

\* C18: the timeout of an open connection fires only after TimeoutSeconds
\* without a reset; the connection is then aborted, no protocol is open, the
\* send reference is cleared and one reconnect is scheduled, with the
\* delay that follows the floor.
C18_TimeoutAborts ==
    /\ [](idle <= TimeoutSeconds)
    /\ [](closedHow = "aborted" /\ live = {}
              => proto = 0 /\ opened = {} /\ connector = "disconnected")
    /\ [][(attempts \in opened /\ closedHow' = "aborted" /\ attempts \notin opened')
             => /\ idle = TimeoutSeconds
                /\ proto' = 0 /\ live' = {}
                /\ calls' = calls + 1
                /\ delay' = (Floor * factor) \div Thousandths]_vars

C18_Witness ==
    /\ closedHow = "aborted" /\ proto = 0 /\ opened = {}
    /\ calls = 1 /\ delay = (Floor * factor) \div Thousandths

\* C19: an obs_air frame starts the indoor handler exactly when InAirID is
\* set and is the frame's device_id, the outdoor handler exactly when
\* OutAirID is set and is the frame's device_id, and no handler when its
\* device_id is neither.
C19_AirFrameRouted ==
    lastFrame.type = "obs_air"
        => /\ "indoorAir" \in started
                  <=> (stationCfg.InAirID # ""
                       /\ ToString(lastFrame.device_id) = stationCfg.InAirID)
           /\ "outdoorAir" \in started
                  <=> (stationCfg.OutAirID # ""
                       /\ ToString(lastFrame.device_id) = stationCfg.OutAirID)
           /\ started \subseteq {"indoorAir", "outdoorAir"}

C19_Witness ==
    /\ lastFrame.type = "obs_air" /\ started = {"indoorAir"}
    /\ stationCfg.OutAirID # ""

\* ---------------------------------------------------------------------
\* Settings: the temperature unit and the "Feels Like" cut-offs
\* ---------------------------------------------------------------------
\* The schema's cut-offs, lines 530-537 of config.py
SchemaCutoff(k) == NumberOf(EntryOf(Opt("FeelsLike", k)).Value)

\* round(): the integer nearest to n / d (d > 0), the even one of two
\* that are equally near
Round(n, d) ==
    LET q == n \div d
        r == n % d
    IN  IF 2 * r < d THEN q
        ELSE IF 2 * r > d THEN q + 1
        ELSE IF q % 2 = 0 THEN q ELSE q + 1

Abs(n) == IF n < 0 THEN -n ELSE n

\* config.py line 291: int(float(Value)*9/5 + 32)
ProvisionedFahrenheit(c) == Truncate(9 * c + 160, 5)

\* main.py line 320: round(float(...)*9/5 + 32)
SettingsFahrenheit(c) == Round(9 * c + 160, 5)

\* The conversion to Celsius without the offset of the Fahrenheit scale
SettingsCelsiusNoOffset(f) == Round(5 * f, 9)

\* main.py line 317: round((float(...)-32) * 5/9)
SettingsCelsius(f) == Round(5 * (f - 32), 9)

\* The FeelsLike section before provisioning has written it
NotWritten == [k \in {} |-> 0]
IsWritten(section) == DOMAIN section # {}

\* writeConfigKey lines 285-292 for every key of the FeelsLike section, in
\* the unit provisioning has stored before
ProvisionCutoffs ==
    /\ ~IsWritten(FeelsLike)
    /\ FeelsLike' = [k \in FeelsLikeKeys |->
                        IF HasLetter("c", unitsTemp) THEN celsius[k]
                        ELSE ProvisionedFahrenheit(celsius[k])]
    /\ UNCHANGED <<unitsTemp, celsius, changes, built>>
    /\ UNCHANGED <<fvars, pvars, svars>>

\* on_config_change('Units', 'Temp', value), main.py lines 314-322
on_config_change(value) ==
    /\ IsWritten(FeelsLike)
    /\ changes < MaxChanges
    /\ value # unitsTemp
    /\ unitsTemp' = value
    /\ FeelsLike' = [k \in FeelsLikeKeys |->
                        IF HasLetter("c", value) THEN SettingsCelsius(FeelsLike[k])
                        ELSE IF HasLetter("f", value) THEN SettingsFahrenheit(FeelsLike[k])
                        ELSE FeelsLike[k]]
    /\ changes' = changes + 1
    /\ UNCHANGED <<celsius, built>>
    /\ UNCHANGED <<fvars, pvars, svars>>

ChangeUnits == \E value \in {"c", "f"} : on_config_change(value)

UnitsNext == ProvisionCutoffs \/ ChangeUnits

\* The cut-offs of the schema moved by shift degrees, not yet written
UnitsStart(unit, shift) ==
    /\ unitsTemp = unit
    /\ FeelsLike = NotWritten
    /\ celsius = [k \in FeelsLikeKeys |-> SchemaCutoff(k) + shift]
    /\ changes = 0
    /\ built = "no"

UnitsAtRest == UnitsStart("c", 0)

\* ---------------------------------------------------------------------
\* Application start-up: main.py runs the provisioning at import, then
\* wfpiconsole().run() calls build()
\* ---------------------------------------------------------------------
\* def Download(metData,Config,dt), forecast.py line 34
DownloadParameters == <<"metData", "Config", "dt">>
\* forecast.Download(self.MetData,self.config), main.py lines 250 and 461
DownloadArguments == <<"self.MetData", "self.config">>

\* build(), lines 229-276, once the provisioning has returned.  Line 250
\* calls Download with one argument less than it has parameters, none of
\* which has a default: the call raises TypeError before Download's body is
\* entered, and build() ends there, before the websocket is connected
\* (line 256) and before UpdateMethods is scheduled (line 274).
Build ==
    /\ ppc = "done"
    /\ built = "no"
    /\ Len(DownloadArguments) # Len(DownloadParameters)
    /\ built' = "TypeError"
    /\ UNCHANGED <<unitsTemp, FeelsLike, celsius, changes>>
    /\ UNCHANGED <<fvars, pvars, svars>>

StartupNext == ProvisionNext \/ Build

\* C22: a cut-off of c degrees Celsius converted to Fahrenheit, by
\* provisioning or by a change of unit in the settings, and converted back
\* to Celsius by a change of unit differs from c by at most 1.
C22_CutoffRoundTrip ==
    (IsWritten(FeelsLike) /\ unitsTemp = "c" /\ changes \in {1, 2})
        => \A k \in FeelsLikeKeys : Abs(FeelsLike[k] - celsius[k]) <= 1

\* A cut-off provisioned in Fahrenheit from a value with a fractional
\* conversion (-4 C = 24.8 F, stored as 24) is back in Celsius
C22_Witness ==
    /\ IsWritten(FeelsLike) /\ unitsTemp = "c" /\ changes = 1
    /\ celsius["ExtremelyCold"] = -4
    /\ FeelsLike["ExtremelyCold"] = -4

\* Values of the device and station IDs that int() has accepted
ValidatedIDs == { IntCanon(raw) : raw \in IntStrings }

UserInputKeys == { i \in 1..KeyCount : defaultConfig[i].Type = "userInput" }

\* C24: an empty answer to a required userInput key, or an answer its
\* validator refuses, leads to the same prompt again and changes nothing in
\* the configuration; the prompt is left only with an answer that passed
\* (or an empty one for an optional key), which is the value written; no ID
\* ever stored for a userInput key is anything but empty or validated.
C24_BadInputReprompted ==
    /\ [](\A i \in UserInputKeys :
            defaultConfig[i].Format = "int"
                => Config[OptOf(defaultConfig[i])] \in {NoOption, ""} \cup ValidatedIDs)
    /\ [][ppc = "input" =>
            LET raw == lastInput'
                bad == \/ raw = "" /\ Cur.State = "required"
                       \/ raw # "" /\ Cur.Format = "int" /\ raw \notin IntStrings
            IN  IF bad
                THEN ppc' = "input" /\ idx' = idx /\ Config' = Config /\ tries' = tries + 1
                ELSE /\ ppc' # "input"
                     /\ Config' = [Config EXCEPT ![OptOf(Cur)] =
                                      IF raw = "" THEN ""
                                      ELSE IF Cur.Format = "int" THEN IntCanon(raw)
                                      ELSE raw]]_vars

\* The prompt for an ID is up again after a non-integer answer
C24_Witness ==
    ppc = "input" /\ Cur.Format = "int" /\ tries > 0 /\ lastInput = "abc"

\* Versions older than v3.6 in semantic-version order, v3.51 read as v3.5.1
AliasedOlder ==
    { v \in KnownVersions :
        ReleaseLess(ParseVersion(IF v = "v3.51" THEN "v3.5.1" ELSE v), <<3, 6>>) }

\* C25: update() provisions again exactly when the file's System.Version is
\* older than the schema's in semantic-version order, v3.51 counting as
\* v3.5.1: such a file ends with the schema's version, a file of the same
\* or a newer version is left as it was.
C25_UpgradesExactlyOlderVersions ==
    (mode = "update" /\ ppc # "start" /\ has_option(currentConfig, VersionOpt))
        => IF currentConfig[VersionOpt] \in AliasedOlder
           THEN RunDone => /\ iniFile.opts = Config
                           /\ iniFile.opts[VersionOpt] = "v3.6"
           ELSE RunDone /\ iniFile.opts = currentConfig

\* A file at v3.51 has been upgraded to v3.6
C25_Witness ==
    /\ mode = "update" /\ RunDone
    /\ currentConfig[VersionOpt] = "v3.51"
    /\ iniFile.opts[VersionOpt] = "v3.6"

\* update() has rewritten a file of an older version
Upgraded == RunDone /\ mode = "update" /\ currentConfig[VersionOpt] \in AliasedOlder

\* The keys of the schema the old file held, but for fixed keys and the version
CarriedKeys ==
    { i \in 1..KeyCount :
        /\ has_option(currentConfig, OptOf(defaultConfig[i]))
        /\ defaultConfig[i].Type # "fixed"
        /\ defaultConfig[i].k # "Version" }

\* C26 as stated: after an upgrade every non-fixed key the old file held has
\* its old value, the version is the schema's, the keys the old file lacked
\* are filled, and a file that lacked none causes no prompt and no request.
C26_CarriedKeysUnchanged ==
    Upgraded
        => /\ \A i \in CarriedKeys :
                iniFile.opts[OptOf(defaultConfig[i])] = currentConfig[OptOf(defaultConfig[i])]
           /\ iniFile.opts[VersionOpt] = "v3.6"
           /\ SchemaComplete(iniFile.opts)
           /\ SchemaComplete(currentConfig) => (~prompted /\ ~requested)

\* Keys copyConfigKey empties once the user owns a TEMPEST
SupersededKeys == {"SkyID", "SkyHeight", "OutAirID", "OutAirHeight"}

\* Keys a prompt for a corrected ID may rewrite
CorrectableKeys == {"StationID", "TempestID", "SkyID", "OutAirID"}

\* C26 amended: after an upgrade every non-fixed key of the schema the old
\* file held has its old value, except that SkyID, SkyHeight, OutAirID and
\* OutAirHeight are empty once the user has answered yes to owning a TEMPEST,
\* and that the station ID or a device ID may be a validated ID the user
\* entered at a prompt of this run; the version is the schema's, the keys
\* the old file lacked are filled, a key the schema does not have is
\* dropped, and a file that lacked no key causes no prompt and no request.
C26_CarriedKeysKept ==
    Upgraded
        => /\ \A i \in CarriedKeys :
                LET d == defaultConfig[i]
                    o == OptOf(d)
                IN  IF d.k \in SupersededKeys /\ TEMPEST
                    THEN iniFile.opts[o] = ""
                    ELSE \/ iniFile.opts[o] = currentConfig[o]
                         \/ /\ d.k \in CorrectableKeys /\ prompted
                            /\ iniFile.opts[o] \in ValidatedIDs
           /\ iniFile.opts[VersionOpt] = "v3.6"
           /\ SchemaComplete(iniFile.opts)
           /\ ~has_option(iniFile.opts, LegacyOpt)
           /\ SchemaComplete(currentConfig) => (~prompted /\ ~requested)

\* An upgrade of a file with SKY and AIR identifiers by a user who now owns
\* a TEMPEST: the other keys are carried, the superseded ones emptied
C26_Witness ==
    /\ Upgraded /\ TEMPEST
    /\ currentConfig[Opt("Station", "SkyID")] = "30"
    /\ iniFile.opts[Opt("Station", "SkyID")] = ""
    /\ iniFile.opts[Opt("Station", "InAirID")] = currentConfig[Opt("Station", "InAirID")]
    /\ iniFile.opts[StationIDOpt] = "12"

\* The station lists a device with this ID and this device-type code
Listed(devices, id, type) ==
    \E n \in 1..Len(devices) :
        devices[n].hasType /\ devices[n].device_id = id /\ devices[n].device_type = type

\* C27 as stated: for a height key with a configured device ID, a corrected
\* ID is asked for only when the station lists no device with that ID and
\* the matching type, whatever height the device reports; and the height
\* stored is that of the listed device.
C27_PromptOnlyWhenNotListed ==
    /\ ppc = "device_id"
          => ~Listed(Devices(STATION.variant),
                     Config[Opt("Station", DeviceIdKey(Cur.k))], DeviceType(Cur.k))
    /\ \A k \in HeightKeys :
          (RunDone /\ mode = "create" /\ Config[Opt("Station", DeviceIdKey(k))] # "")
              => Config[Opt("Station", k)]
                    = FindHeight(Devices(STATION.variant),
                                 Config[Opt("Station", DeviceIdKey(k))], DeviceType(k), "")

\* C28: once the user has answered yes to owning a TEMPEST, SkyID and
\* OutAirID are not prompted for, no corrected ID is asked for them or their
\* heights, and SkyID, OutAirID, SkyHeight and OutAirHeight are written
\* empty, in create() and in update() of a file that held SKY and AIR
\* identifiers alike.
C28_TempestSupersedesSkyAndAir ==
    TEMPEST
        => /\ \A k \in SupersededKeys : Config[Opt("Station", k)] \in {NoOption, ""}
           /\ (idx \in 1..KeyCount /\ Cur.k \in SupersededKeys)
                  => ppc \notin {"query", "input", "device_id"}
           /\ RunDone => \A k \in SupersededKeys : iniFile.opts[Opt("Station", k)] = ""

\* An upgrade by a user who now owns a TEMPEST of a file that held a SKY
\* identifier and lacked the SKY's height
C28_Witness ==
    /\ Upgraded /\ TEMPEST
    /\ currentConfig[Opt("Station", "SkyID")] = "30"
    /\ currentConfig[Opt("Station", "OutAirID")] = "20"
    /\ ~has_option(currentConfig, Opt("Station", "SkyHeight"))
    /\ iniFile.opts[Opt("Station", "SkyHeight")] = ""
    /\ iniFile.opts[Opt("Station", "OutAirHeight")] = ""

\* The place in the hourly series (counted from 1) of the first entry from
\* the current one on whose condition differs from the current entry's, the
\* last place of the series if none does
FirstChange(D, cur) ==
    LET diff == { j \in cur..Len(D.conds) : D.conds[j] # D.conds[cur] }
    IN  IF diff = {} THEN Len(D.conds)
        ELSE CHOOSE j \in diff : \A k \in diff : j <= k

\* C29 as stated: the time in '<condition> until ...' is the timestamp of
\* the first hourly entry at or after the current one whose condition
\* differs from the current entry's, the last entry's if none differs,
\* wherever the current entry stands in the series.
C29_UntilFirstChange ==
    (DownloadDone /\ raised = "none" /\ metData.Dict.state = "payload")
        => LET D == metData.Dict
           IN  metData.Conditions =
                   Capitalize(D.conds[hoursInd + 1]) \o " until "
                       \o ToString(D.Hours[FirstChange(D, hoursInd + 1)])

\* The first timestamp of the series H that is strictly greater than now
\* (0 if there is none)
FirstLater(H, now) ==
    LET later == { j \in 1..Len(H) : H[j] > now }
    IN  IF later = {} THEN 0
        ELSE H[CHOOSE j \in later : \A k \in later : j <= k]

C31_InvalidResponseKeepsPayload ==
    [][(fpc = "fetching" /\ ~verifyResponse(Data)) =>
          /\ metData'.Dict = IF metData.Dict.state = "absent" THEN EmptyDict
                             ELSE metData.Dict
          /\ funcError' = 1
          /\ secondsSched' = RetrySeconds - ((Now' - funcCalled) \div TicksPerSec)
          /\ secondsSched' > RetrySeconds - MaxElapsed - 1
          /\ timers' = timers \cup {Now' + Ticks(secondsSched')}]_vars

\* The second Download got an invalid response, and the extraction from
\* the payload of the first succeeded
C31_Witness ==
    /\ DownloadDone
    /\ downloads = 2
    /\ metData.Dict.state = "payload"
    /\ metData.Dict.gen = 1
    /\ raised = "none"
    /\ funcError = 1
    /\ metData.Status = ""

\* C32: verifyResponse accepts a response, and Download stores its body,
\* exactly when the response exists, has a success status, its body is JSON,
\* the JSON is an object and the object holds a non-null 'forecast'; no
\* response at all and a response without a success status are both
\* rejected.
C32_AcceptedExactlyWhenWellFormed ==
    [][fpc = "fetching" =>
          LET wellFormed == /\ Data.exists
                            /\ Data.ok
                            /\ Data.isJson
                            /\ Data.isDict
                            /\ Data.forecast = "present"
              stored     == /\ Data.payload.state = "payload"
                            /\ metData'.Dict = Data.payload
          IN  /\ wellFormed <=> stored
              /\ (~Data.exists \/ ~Data.ok) => (~stored /\ funcError' = 1)]_vars

\* A response without a success status whose body would have passed is at
\* hand and is rejected
C32_Witness ==
    /\ fpc = "fetching"
    /\ Data.exists
    /\ ~Data.ok
    /\ Data.isDict
    /\ Data.forecast = "present"
    /\ Data.payload.state = "payload"
    /\ ~verifyResponse(Data)

\* C33: every transition to open puts the reconnect delay back to its
\* floor and starts the inactivity timeout at TimeoutSeconds, so that the
\* first reconnect after an open connection went down is scheduled with the
\* delay one step above the floor, however many failures came before the
\* open.
C33_OpenResetsBackoff ==
    /\ [][(attempts \in opened' \ opened)
             => /\ delay' = Floor
                /\ retries' = 0
                /\ idle' = 0 ]_vars
    /\ [][(attempts \in opened \ opened')
             => /\ delay = Floor
                /\ delay' = (Floor * factor) \div Thousandths
                /\ retries' = 1
                /\ calls' = calls + 1
                /\ (closedHow' = "aborted" => idle = TimeoutSeconds) ]_vars

\* A connection that was opened after three failures went down, and its
\* reconnect has the delay one step above the floor
C33_Witness ==
    /\ failures > 3
    /\ opened = {}
    /\ closedHow = "lost"
    /\ retries = 1
    /\ delay = (Floor * factor) \div Thousandths
    /\ calls = 1

\* The subscriptions of the last dispatch: <<type, device, id>> of each
\* message that went out
SentListens == { <<sent[i].msg.type, sent[i].msg.device_id, sent[i].msg.id>> :
                     i \in 1..Len(sent) }

\* C34: on every connection_opened frame, those after a reconnect included,
\* a listen_start goes out for OutAirID and for InAirID when they are not
\* empty and for the wind device (TempestID, else SkyID) when there is one,
\* on the connection that is open, and no subscription ever goes out with
\* an empty device ID.
C34_SubscribedOnEveryOpen ==
    /\ \A i \in 1..Len(sent) : sent[i].msg.device_id # ""
    /\ lastFrame.type = "connection_opened"
          => /\ stationCfg.OutAirID # ""
                 => <<"listen_start", stationCfg.OutAirID, "OutdoorAir">> \in SentListens
             /\ stationCfg.InAirID # ""
                 => <<"listen_start", stationCfg.InAirID, "IndoorAir">> \in SentListens
             /\ stationCfg.TempestID # ""
                 => <<"listen_start", stationCfg.TempestID, "Sky">> \in SentListens
             /\ (stationCfg.TempestID = "" /\ stationCfg.SkyID # "")
                 => <<"listen_start", stationCfg.SkyID, "Sky">> \in SentListens
             /\ Cardinality(SentListens) = Len(sent)
             /\ \A i \in 1..Len(sent) : sent[i].on = attempts

\* connection_opened arrived on a connection made by a reconnect, with an
\* indoor AIR only: one subscription went out
C34_Witness ==
    /\ lastFrame.type = "connection_opened"
    /\ attempts > 1
    /\ failures > 0
    /\ stationCfg = Station("", "", "", "21")
    /\ SentListens = { <<"listen_start", "21", "IndoorAir">> }

\* C35 as stated: every Download that reaches its end, whether the fetch
\* succeeded, the response was invalid or the extraction failed, schedules
\* exactly one next Download, with a delay that is strictly positive.
C35_NextDownloadAfterPositiveDelay ==
    [][(fpc = "fetching" /\ fpc' = "idle")
          => /\ secondsSched' > 0
             /\ timers' # timers
             /\ \E due \in timers' : /\ timers' = timers \cup {due}
                                     /\ due > clock']_vars

\* Downloads scheduled on the event loop or running
PendingDownloads == Cardinality(timers) + (IF fpc = "idle" THEN 0 ELSE 1)

C37_ExitLeavesFileUntouched ==
    /\ [](ppc = "exit" => /\ iniFile \in {NoFile} \cup ExistingFiles
                          /\ mode = "create" <=> iniFile = NoFile)
    /\ [][iniFile' # iniFile
             => (ppc = "key" /\ idx = KeyCount + 1 /\ ppc' = "done")]_vars

\* An upgrade that had carried and written keys into the new configuration
\* ended on the retries of a fetch, the old file still in place
C37_Witness ==
    /\ ppc = "exit"
    /\ mode = "update"
    /\ iniFile \in ExistingFiles
    /\ Config # EmptyConfig
    /\ Config # iniFile.opts

\* C38: a NOT FOUND answer of the station endpoint does not count against
\* the retries: RETRIES goes up by one with every answer that says neither
\* NOT FOUND nor SUCCESS and with no other, it is the number of such answers
\* so far whatever NOT FOUND answers came in between, and the requests made
\* are those answers plus the NOT FOUND ones, which nothing bounds.
C38_NotFoundCostsNoRetry ==
    /\ [](ppc \in {"station", "station_id"}
             => /\ RETRIES = stationFailures
                /\ RETRIES < MAXRETRIES
                /\ stationRequests = stationFailures + stationNotFound)
    /\ [](StationFetchFailed => stationRequests = MAXRETRIES + stationNotFound)
    /\ [][stationNotFound' # stationNotFound
             => /\ stationNotFound' = stationNotFound + 1
                /\ RETRIES' = RETRIES
                /\ ppc' = "station_id"]_vars
    /\ [][(ppc = "station" /\ RETRIES' # RETRIES /\ ppc' # "tail")
             => /\ RETRIES' = RETRIES + 1
                /\ STATION' # None
                /\ ~(STATION'.hasStatus /\ (IsNotFound(STATION') \/ IsSuccess(STATION')))]_vars

\* The loop has made more requests than MAXRETRIES and goes on: NOT FOUND
\* answers came before and after failures
C38_Witness ==
    /\ ppc = "station"
    /\ stationRequests > MAXRETRIES
    /\ stationNotFound = MaxNotFound
    /\ RETRIES = MAXRETRIES - 1

\* C39: the configuration an upgrading update() writes holds the keys of
\* the schema and no other, a key or a section of the old file that the
\* schema does not have is not in it, and its keys stand in the order of the
\* schema: the loop goes through the schema key by key, and a key enters
\* the new configuration when the loop is at it and at no other time.
C39_UpgradeWritesSchemaKeysInOrder ==
    /\ []((Written /\ mode = "update")
             => \A o \in AllOpts : has_option(iniFile.opts, o) <=> o \in SchemaOpts)
    /\ [][(mode = "update" /\ ppc # "start")
             => /\ \A o \in AllOpts :
                      (~has_option(Config, o) /\ has_option(Config', o))
                          => (idx <= KeyCount /\ o = OptOf(Cur) /\ idx' = idx + 1)
                /\ \A o \in AllOpts : has_option(Config, o) => has_option(Config', o)
                /\ idx' # idx => (idx' = idx + 1 /\ has_option(Config', OptOf(Cur)))]_vars

\* An upgrade of a file that held a key and a section unknown to the schema
\* and lacked keys of the schema has written the new file
C39_Witness ==
    /\ Written
    /\ mode = "update"
    /\ \A o \in LegacyOpts : has_option(currentConfig, o)
    /\ \E o \in SchemaOpts : ~has_option(currentConfig, o)
    /\ \A o \in SchemaOpts : has_option(iniFile.opts, o)

\* C40 as stated: every icon code of the enumerated set is published as it
\* came, by Download as the snapshot's Icon and by ExtractDaily as the
\* weather of the day's panel; none is replaced by the '--' sentinel.
C40_EnumeratedIconsPublished ==
    (DownloadDone /\ raised = "none" /\ metData.Dict.state = "payload")
        => LET D == metData.Dict
           IN  /\ D.icon \in DocumentedIcons
                      => (metData.Icon = D.icon /\ metData.Icon # Sentinel)
               /\ \A i \in 1..MaxPanels :
                      (i <= Len(D.daily) /\ D.daily[i] \in DocumentedIcons)
                          => (panels[i] = D.daily[i] /\ panels[i] # Sentinel)

\* C23 as stated: a FeelsLike cut-off written by provisioning is, in
\* Fahrenheit, the schema's Celsius default times 9/5 plus 32 rounded to the
\* nearest integer, and in Celsius the schema's literal.
C23_CutoffsRoundedToNearest ==
    (RunDone /\ mode = "create")
        => \A k \in FeelsLikeKeys :
              Config[Opt("FeelsLike", k)] =
                  IF Config[Opt("Units", "Temp")] = "f"
                  THEN ToString(Round(9 * SchemaCutoff(k) + 160, 5))
                  ELSE EntryOf(Opt("FeelsLike", k)).Value

\* Frames that carry observations
ObservationTypes == {"obs_st", "obs_sky", "obs_air", "rapid_wind", "evt_strike"}

\* The threads in seq are in the order of the frames they belong to
InArrivalOrder(seq) ==
    \A i, j \in 1..Len(seq) : i < j => seq[i].frame <= seq[j].frame

\* C21: observation frames reach their handlers in arrival order, each
\* handler on a thread of its own, and the receive path never waits for a
\* handler: while the connection is open the next frame can be received
\* whatever handlers are still running, and a frame that started a handler
\* has reset the inactivity timer.
C21_DispatchNeverWaits ==
    /\ InArrivalOrder(threads)
    /\ (attempts \in opened /\ arrivals < MaxFrames) => ENABLED Dispatch
    /\ (lastFrame.type \in ObservationTypes /\ started # {})
           => (timerReset /\ idle = 0)

\* Three frames were dispatched while the handler of the first never
\* returned, and the handler of a later frame returned before that of an
\* earlier one
C21_Witness ==
    /\ arrivals = MaxFrames
    /\ Len(threads) > 0 /\ threads[1].frame = 1
    /\ Len(done) >= 2 /\ done[1].frame > done[2].frame
    /\ timerReset

\* ---------------------------------------------------------------------
\* Specifications: each part of the program on its own, the others at rest
\* ---------------------------------------------------------------------
ForecastInit ==
    /\ \E t \in StartTimes : ForecastStart("hourly", MaxDownloads, t)
    /\ ProvisionStart(NoFile)
    /\ StreamStart(Station("", "", "", ""))
    /\ UnitsAtRest

SpecForecast == ForecastInit /\ [][ForecastNext]_vars

\* The hourly lookup on every ascending series over Stamps, at the times
\* around its stamps
LookupTimes == {Ticks(99)} \cup { Ticks(100 * k + d) : k \in 1..MaxHours, d \in {0, 1, 50} }

LookupInit ==
    /\ \E t \in LookupTimes : ForecastStart("series", 1, t)
    /\ ProvisionStart(NoFile)
    /\ StreamStart(Station("", "", "", ""))
    /\ UnitsAtRest

SpecLookup == LookupInit /\ [][ForecastNext]_vars

\* Download on every series over Stamps with every run of conditions
ConditionsInit ==
    /\ \E t \in LookupTimes : ForecastStart("conditions", 1, t)
    /\ ProvisionStart(NoFile)
    /\ StreamStart(Station("", "", "", ""))
    /\ UnitsAtRest

SpecConditions == ConditionsInit /\ [][ForecastNext]_vars

\* Download when the request may take about as long as the retry delay
StallInit ==
    /\ ForecastStart("stalled", MaxDownloads, Ticks(52620))
    /\ ProvisionStart(NoFile)
    /\ StreamStart(Station("", "", "", ""))
    /\ UnitsAtRest

SpecStall == StallInit /\ [][ForecastNext]_vars

\* The start of the program: provisioning, then build(); no Download is
\* scheduled yet
StartupInit ==
    /\ \E file \in {NoFile} \cup ExistingFiles : ProvisionStart(file)
    /\ ForecastWith("hourly", MaxDownloads, Ticks(52620), {})
    /\ StreamStart(Station("", "", "", ""))
    /\ UnitsAtRest

SpecStartup == StartupInit /\ [][StartupNext]_vars

\* Download on every kind of response
VerifyInit ==
    /\ ForecastStart("responses", MaxDownloads, Ticks(52620))
    /\ ProvisionStart(NoFile)
    /\ StreamStart(Station("", "", "", ""))
    /\ UnitsAtRest

SpecVerify == VerifyInit /\ [][ForecastNext]_vars

\* Download on payloads that differ in their icon codes
IconsInit ==
    /\ ForecastStart("icons", 1, Ticks(52620))
    /\ ProvisionStart(NoFile)
    /\ StreamStart(Station("", "", "", ""))
    /\ UnitsAtRest

SpecIcons == IconsInit /\ [][ForecastNext]_vars

\* The provisioning run on its own
ProvisionInit ==
    /\ \E file \in {NoFile} \cup ExistingFiles : ProvisionStart(file)
    /\ ForecastStart("hourly", 0, 0)
    /\ StreamStart(Station("", "", "", ""))
    /\ UnitsAtRest

SpecProvision == ProvisionInit /\ [][ProvisionNext]_vars

\* Two Downloads from 14:37:00: the second finds the labels of the first
SnapshotInit ==
    /\ ForecastStart("labels", MaxDownloads, Ticks(52620))
    /\ ProvisionStart(NoFile)
    /\ StreamStart(Station("", "", "", ""))
    /\ UnitsAtRest

SpecSnapshot == SnapshotInit /\ [][SnapshotNext]_vars

\* The stream client on its own
StreamInit ==
    /\ \E cfg \in Stations : StreamStart(cfg)
    /\ ForecastStart("hourly", 0, 0)
    /\ ProvisionStart(NoFile)
    /\ UnitsAtRest

SpecStream == StreamInit /\ [][StreamNext]_vars

\* The receive path and the handler threads of a station with a Tempest and
\* both AIRs
DispatchInit ==
    /\ \E cfg \in {Station("10", "30", "20", "21"), Station("", "30", "20", "20")} :
           StreamStart(cfg)
    /\ ForecastStart("hourly", 0, 0)
    /\ ProvisionStart(NoFile)
    /\ UnitsAtRest

SpecDispatch == DispatchInit /\ [][DispatchNext]_vars

\* The cut-offs and the temperature unit on their own
UnitsInit ==
    /\ \E unit \in {"c", "f"}, shift \in (-MaxShift)..MaxShift : UnitsStart(unit, shift)
    /\ ForecastStart("hourly", 0, 0)
    /\ ProvisionStart(NoFile)
    /\ StreamStart(Station("", "", "", ""))

SpecUnits == UnitsInit /\ [][UnitsNext]_vars

\* The reactor runs every call it has scheduled
SpecStreamLive == SpecStream /\ WF_vars(Reconnect)

====
